---- MODULE Spec2Model ----
(***************************************************************************)
(* Point buffer cache of plasio.js (point-buffer-cache, local-ramp brush,  *)
(* and the stats merge of the greyhound loader), as a state machine.       *)
(*                                                                         *)
(* JavaScript runs each piece of code between two awaits to completion, so *)
(* every action below is one such piece: from the resumption of an async   *)
(* function to its next await (or its return).                             *)
(***************************************************************************)
EXTENDS Integers, Sequences, FiniteSets, TLC

\* ------------------------------------------------------------------ bounds
\* Number of loads (calls of _internalLoad that reach the stats merge).
MaxLoads == 4
\* Number of flush() calls.
MaxFlush == 1
\* Number of remove() calls.
MaxRemove == 1
\* Number of loads between their stats merge and the return of push at a time.
MaxInFlight == 2
\* Number of loads in the small specification (SpecSmall).
SmallLoads == 2
\* Number of loads in the specification with the wide tree (SpecPaths).
MaxPathLoads == 4
\* Number of loads in the specification with the wide brush vectors (SpecBrushes).
MaxBrushLoads == 3
\* Number of loads with the inputs that make the recolor queue coalesce.
MaxQueueLoads == 4

\* ------------------------------------------------------------- input sets
\* Tree paths: "R" is <<"R">>, "R0" is <<"R","0">>: treePath.length is Len.
PathSet == { <<"R">>, <<"R", "0">> }

Fields == { "z", "intensity" }
Buckets == { 0, 10, 20 }

\* A histogram maps every bucket key to its count; count 0 is "key absent".
NoHist == [b \in Buckets |-> 0]
NoStats == [f \in Fields |-> NoHist]

\* The per-tile stats a decompressed buffer may carry (only z is in the schema).
TileStats ==
    { [NoStats EXCEPT !["z"] = [NoHist EXCEPT ![0] = 1]],
      [NoStats EXCEPT !["z"] = [NoHist EXCEPT ![0] = 1, ![10] = 1]] }

\* The brush vectors (this.brushes of the loader, nulls filtered out).
BrushVectors == { <<"ramp_z">> }

\* The wide inputs: a tree of depth three with a sibling ("R01" is below "R0"),
\* and brush vectors that differ in length and in strategy (a ramp over
\* intensity finds no histogram in these stats: it paints no color).
WidePathSet == { <<"R">>, <<"R", "0">>, <<"R", "0", "1">>, <<"R", "1">> }
WideBrushVectors == { <<"ramp_z">>, <<"ramp_intensity">>, <<"ramp_z", "ramp_z">> }

\* The inputs that make the recolor queue coalesce: three tiles, and stats
\* that can widen the range of z twice.
QueuePathSet == { <<"R">>, <<"R", "0">>, <<"R", "1">> }
QueueStats == { [NoStats EXCEPT !["z"] = [NoHist EXCEPT ![b] = 1]] : b \in Buckets }

LoadIds == 1..MaxLoads
DriverIds == 1..(MaxFlush + 1)

\* -------------------------------------------------------------- variables
VARIABLES
    pointCloudBufferStats,  \* buffer-loaders.js module variable
    nodes,                  \* PointBufferCache.nodes: path -> node object id
    nodeObjs,               \* the node objects (CachedNodeInfo), by object id
    recolorTasks,           \* PointBufferCache.recolorTasks
    recolorRunning,         \* PointBufferCache._recolorRunning
    lockedNodes,            \* PointBufferCache.lockedNodes
    brush,                  \* the brush instances of each load, by [load][index]
    load,                   \* one activation of _internalLoad / push per load id
    driver,                 \* activations of _startRecolor / _recolorNode
    nextLoad,               \* the next load id
    renderRequests,         \* number of calls of renderRequestFunction
    flushes,                \* number of flush() calls so far
    removes,                \* number of remove() calls so far
    history,                \* what the past operations did (never read by the program)
    availableBrushes,       \* brush-factory.js module variable: key -> brush class
    loaderBrushes,          \* GreyhoundPipelineLoader.brushes, <<>> before construction
    result,                 \* what the last call of the brush API returned or threw
    pointBuffers,           \* engine.cljs run state: buffer id -> point buffer, or nil
    bufferLoads,            \* the go blocks of update-point-buffers' create function
    scene,                  \* the buffer ids of the scene at the last update
    attribs,                \* the attribs reified and not unreified
    statsNodes,             \* the buffer ids added to the stats collector
    currentMode,            \* ModeManager.currentMode
    dragging,               \* ModeManager.dragging
    active,                 \* ModeManager.active
    lastHoveredEntity,      \* ModeManager.lastHoveredEntity
    lockedMode,             \* ModeManager.lockedMode
    actionListeners,        \* ModeManager.actionListeners (how many)
    synthClickEventInfo,    \* ModeManager.synthClickEventInfo
    documentListeners,      \* mousemove / mouseup listeners on the document
    handled                 \* what the last ModeManager handler delivered

\* The variables of the renderer's point buffers and of the mode manager.
engineVars == << pointBuffers, bufferLoads, scene, attribs, statsNodes >>
modeVars == << currentMode, dragging, active, lastHoveredEntity, lockedMode,
              actionListeners, synthClickEventInfo, documentListeners, handled >>
uiVars == << engineVars, modeVars >>

vars == << pointCloudBufferStats, nodes, nodeObjs, recolorTasks, recolorRunning,
           lockedNodes, brush, load, driver, nextLoad, renderRequests, flushes,
           removes, history, availableBrushes, loaderBrushes, result,
           engineVars, modeVars >>

\* The variables of the brush factory, the loader's channels and the last call.
factoryVars == << availableBrushes, loaderBrushes, result >>

\* The variables of the point buffer cache and of the stats merge.
cacheVars == << pointCloudBufferStats, nodes, nodeObjs, recolorTasks, recolorRunning,
                lockedNodes, brush, load, driver, nextLoad, renderRequests, flushes,
                removes >>

\* ------------------------------------------------------------ util helpers
SetMin(S) == CHOOSE x \in S : \A y \in S : x <= y
SetMax(S) == CHOOSE x \in S : \A y \in S : x >= y

RECURSIVE SumOver(_, _)
SumOver(S, f) ==
    IF S = {} THEN 0
    ELSE LET x == CHOOSE y \in S : TRUE IN f[x] + SumOver(S \ {x}, f)

\* util.accumulateStats: field-wise, bucket-wise addition.
accumulateStats(running, incoming) ==
    [f \in Fields |-> [b \in Buckets |-> running[f][b] + incoming[f][b]]]

\* pointCloudBufferStats = util.accumulateStats(pointCloudBufferStats, stats):
\* the value assigned. mergedStatsOverwrite is the faulty variant that keeps
\* the incoming stats alone.
mergedStatsOverwrite(running, decompressedStats) == decompressedStats
mergedStatsNotYet(running, decompressedStats) == running
mergedStats(running, decompressedStats) == accumulateStats(running, decompressedStats)

\* totalPoints of a decompressed buffer: every point falls in one z bucket.
TotalPointsOf(stats) == SumOver(Buckets, stats["z"])

\* The width of a histogram bucket (e += 10).
BucketWidth == 10

\* ------------------------------------------------------- LocalRamp brush
BrushField(kind) == IF kind = "ramp_z" THEN "z" ELSE "intensity"

\* The field colorPoint reads: y for the field z (y is up in render space).
ReadField(kind) == IF BrushField(kind) = "z" THEN "y" ELSE BrushField(kind)

\* A brush instance as constructed from field and step (a step of 0 becomes
\* 1), and with the default step; range is <<min, max>>, scalef the fraction
\* <<255, step * (max - min)>>, both <<>> while undefined.
LocalRamp(kind, step) ==
    [kind |-> kind, step |-> IF step = 0 THEN 1 ELSE step,
     readField |-> ReadField(kind), noColor |-> FALSE, range |-> <<>>,
     scalef |-> <<>>]
NewBrush(kind) == LocalRamp(kind, 1)

\* unprepare: min, max, scalef and noColor deleted.
unprepare(b) == [b EXCEPT !.noColor = FALSE, !.range = <<>>, !.scalef = <<>>]

\* The keys of a histogram: the buckets that hold points.
HistKeys(hist) == { b \in DOMAIN hist : hist[b] > 0 }

\* _statsToFieldRange: <<s, e>>, or <<>> for [MAX_SAFE_INTEGER, MIN_SAFE_INTEGER].
statsToFieldRange(kind, stats) ==
    LET keys == HistKeys(stats[BrushField(kind)])
    IN  IF keys # {} THEN << SetMin(keys), SetMax(keys) + BucketWidth >> ELSE <<>>

\* s >= e of prepare and nodeSelectionStrategy.
EmptyRange(r) == r = <<>> \/ r[1] >= r[2]

\* prepare: sets noColor, or min, max and scalef = 255 / (step * (e - s)).
prepare(b, stats) ==
    LET r == statsToFieldRange(b.kind, stats)
    IN  IF EmptyRange(r) THEN [b EXCEPT !.noColor = TRUE]
        ELSE [b EXCEPT !.range = r, !.scalef = << 255, b.step * (r[2] - r[1]) >>]

\* stagingAttributes: {} is <<>>, {min, max} is <<min, max>>.
stagingAttributes(b) == IF b.noColor THEN <<>> ELSE b.range

\* nodeSelectionStrategy. The variant selects all nodes whatever the range.
nodeSelectionStrategyAlwaysAll(kind, stats) ==
    [strategy |-> "ALL", params |-> statsToFieldRange(kind, stats)]
nodeSelectionStrategy(kind, stats) ==
    LET r == statsToFieldRange(kind, stats)
    IN  IF EmptyRange(r) THEN [strategy |-> "NONE", params |-> <<>>]
        ELSE [strategy |-> "ALL", params |-> r]

\* bufferNeedsRecolor: (min !== s) || (max !== e)
\* (bufferNeedsRecolorMinOnly: the variant that compares min alone.)
bufferNeedsRecolorMinOnly(strategyParams, staged) ==
    staged = << >> \/ staged[1] # strategyParams[1]
bufferNeedsRecolor(strategyParams, staged) == staged # strategyParams

\* beginTransfer: the brush's parameters, copied by value. The variant leaves
\* the no-color flag behind.
beginTransferWithoutFlag(b) ==
    [noColor |-> FALSE, range |-> b.range, scalef |-> b.scalef,
     readField |-> b.readField]
beginTransfer(b) ==
    [noColor |-> b.noColor, range |-> b.range, scalef |-> b.scalef,
     readField |-> b.readField]

\* endTransfer: adopt the parameters that came.
endTransfer(b, params) ==
    [b EXCEPT !.noColor = params.noColor, !.range = params.range,
              !.scalef = params.scalef, !.readField = params.readField]

\* colorPoint: black in no-color mode, else the grey
\* h = floor(scalef * (point[readField] - min)) * step in all three channels.
\* The variant forgets the step.
colorPointUnstepped(b, point) ==
    IF b.noColor THEN << 0, 0, 0 >>
    ELSE LET h == (b.scalef[1] * (point[b.readField] - b.range[1])) \div b.scalef[2]
         IN  << h, h, h >>
colorPoint(b, point) ==
    IF b.noColor THEN << 0, 0, 0 >>
    ELSE LET h == ((b.scalef[1] * (point[b.readField] - b.range[1])) \div b.scalef[2])
                      * b.step
         IN  << h, h, h >>

\* ----------------------------------------------------- color worker (pool)
\* What the worker writes into color channel i with the brush parameters p:
\* colorPoint paints black in no-color mode, else the ramp over [min, max].
ChannelColor(p) == IF p.noColor THEN <<>> ELSE p.range

\* A new Float32Array(n): zero filled. (ZeroBufferNoChannels: the variant with
\* room for x, y, z only.)
ZeroBufferNoChannels(n, pointSize) ==
    [len |-> (n \div pointSize) * 3, filled |-> FALSE,
     colors |-> [i \in 0..(pointSize - 4) |-> <<>>]]
ZeroBuffer(n, pointSize) ==
    [len |-> n, filled |-> FALSE, colors |-> [i \in 0..(pointSize - 4) |-> <<>>]]

\* The worker copies x, y, z of every point and paints channel j with the j-th
\* brush of the job; the other channels keep what the buffer held.
ColorWorker(outputBuffer, sent) ==
    [outputBuffer EXCEPT
        !.filled = TRUE,
        !.colors = [i \in DOMAIN outputBuffer.colors |->
                        IF i < Len(sent) THEN ChannelColor(sent[i + 1])
                        ELSE outputBuffer.colors[i]]]

\* A worker job may fail (crash, decode error): its future is then rejected.
WorkerMayFail == TRUE

\* ------------------------------------------------------------ lock table
\* _lockNode: TRUE when the lock was free (and is now taken).
LockFree(key) == key \notin DOMAIN lockedNodes

lockNodeUnqueued(key, who) ==
    IF key \notin DOMAIN lockedNodes
    THEN (key :> [waiting |-> <<>>]) @@ lockedNodes
    ELSE lockedNodes
lockNode(key, who) ==
    IF key \notin DOMAIN lockedNodes
    THEN (key :> [waiting |-> <<>>]) @@ lockedNodes
    ELSE [lockedNodes EXCEPT ![key].waiting = Append(@, who)]

\* _releaseNode: the lock table afterwards.
releaseNode(key) ==
    IF key \notin DOMAIN lockedNodes THEN lockedNodes
    ELSE IF lockedNodes[key].waiting = <<>>
         THEN [k \in DOMAIN lockedNodes \ {key} |-> lockedNodes[k]]
         ELSE [lockedNodes EXCEPT ![key].waiting = Tail(@)]

\* _releaseNode: whose resolve() is called, << >> when nobody's.
Released(key) ==
    IF key \in DOMAIN lockedNodes /\ lockedNodes[key].waiting # <<>>
    THEN << Head(lockedNodes[key].waiting) >> ELSE <<>>

\* resolve() of a waiting _recolorNode resumes it; a push never awaited its lock.
resumeWaiter(drv, woken) ==
    [d \in DriverIds |->
        IF woken # <<>> /\ woken[1] = <<"recolor", d>> /\ drv[d].pc = "waiting"
        THEN [drv[d] EXCEPT !.pc = "locked"] ELSE drv[d]]

\* ------------------------------------------------------- brush factory
\* null and undefined; what a call returns, or the error it throws.
null == << >>
Returns(v) == [threw |-> FALSE, value |-> v]
Thrown(message) == [threw |-> TRUE, value |-> message]

\* ModeManager: a reference to a mode is << name >>, null is no mode.
Camera == << "camera" >>

\* ModeManager: synthClickEventInfo = {} and the report of a handler that has
\* not run.
NoClickInfo == [set |-> FALSE]
NotHandled ==
    [event |-> "none", locked |-> << >>, delivered |-> << >>, notified |-> 0,
     threw |-> FALSE]

\* A brush spec is the URI scheme://name?params; util.parseBrushSpec splits it
\* into these three parts.
LocalRampZ == [scheme |-> "local", name |-> "ramp", params |-> "field=z"]
LocalColorRed == [scheme |-> "local", name |-> "color", params |-> "color=#ff0000"]
TmsMapbox == [scheme |-> "tms", name |-> "mapbox", params |-> ""]
BrushSpecs == { LocalRampZ, LocalColorRed, TmsMapbox }

\* The classes an application registers, and the keys it registers them under.
BrushClasses == { "LocalRamp", "MapboxBrush" }
BrushNames == { << "local", "ramp" >>, << "tms", "mapbox" >> }

\* scheme + '://' + name
BrushKey(scheme, name) == scheme \o "://" \o name

\* The stock brushes the registry starts with.
StockBrushes ==
    [key \in { "local://color", "local://ramp", "local://field-color",
               "remote://imagery" } |->
        CASE key = "local://color" -> "LocalColor"
          [] key = "local://ramp" -> "LocalRamp"
          [] key = "local://field-color" -> "LocalFieldColor"
          [] OTHER -> "RemoteImagery"]

\* createBrush: an instance of the class registered under the spec's key
\* (BaseBrush keeps the spec it was made from in brushSpec), or the error.
createBrush(reg, spec) ==
    LET key == BrushKey(spec.scheme, spec.name)
    IN  IF key \notin DOMAIN reg THEN Thrown("Unrecognized brush spec: " \o key)
        ELSE Returns([brushSpec |-> spec, klass |-> reg[key]])

\* registerBrush: availableBrushes[key] = klass. The variant keeps an
\* existing registration.
registerBrushIfAbsent(reg, scheme, name, klass) ==
    LET key == BrushKey(scheme, name)
    IN  [k \in DOMAIN reg \cup { key } |-> IF k \in DOMAIN reg THEN reg[k] ELSE klass]
registerBrush(reg, scheme, name, klass) ==
    LET key == BrushKey(scheme, name)
    IN  [k \in DOMAIN reg \cup { key } |-> IF k = key THEN klass ELSE reg[k]]

\* deregisterBrush: delete availableBrushes[key]
deregisterBrush(reg, scheme, name) ==
    [k \in DOMAIN reg \ { BrushKey(scheme, name) } |-> reg[k]]

\* availableBrushes(): Object.keys of the registry.
availableBrushesKeys(reg) == DOMAIN reg

\* serializeBrushes: null stays null, a brush becomes {s: brushSpec, p: serialize()}.
\* The variant writes the brushes out last slot first.
serializeBrushesReversed(brushes) ==
    LET last == SetMax(DOMAIN brushes)
    IN  [i \in DOMAIN brushes |->
            IF brushes[last - i] = null THEN null
            ELSE [s |-> brushes[last - i].brushSpec, p |-> << >>]]
serializeBrushes(brushes) ==
    [i \in DOMAIN brushes |->
        IF brushes[i] = null THEN null
        ELSE [s |-> brushes[i].brushSpec, p |-> << >>]]

\* deserializeBrushes: null stays null, every other object goes through
\* createBrush; the first error ends the call.
deserializeBrushes(reg, objects) ==
    LET made == [i \in DOMAIN objects |->
                    IF objects[i] = null THEN Returns(null)
                    ELSE createBrush(reg, objects[i].s)]
        bad == { i \in DOMAIN objects : made[i].threw }
    IN  IF bad # {} THEN made[SetMin(bad)]
        ELSE Returns([i \in DOMAIN objects |-> made[i].value])

\* ------------------------------------------- loader's color channels
ChannelCount == 4
NoChannels == [i \in 0..(ChannelCount - 1) |-> null]

\* setColorChannelBrush: the channels after the call, or the error.
setColorChannelBrush(reg, brushes, index, source) ==
    IF index >= ChannelCount
    THEN Thrown("Index needs to be less than 4 when setting color channel")
    ELSE IF source = null THEN Returns([brushes EXCEPT ![index] = null])
    ELSE LET made == createBrush(reg, source)
         IN  IF made.threw THEN made
             ELSE Returns([brushes EXCEPT ![index] = made.value])

\* The constructor sets the channels one by one from params.brushes; the first
\* error ends the construction.
RECURSIVE SetChannels(_, _, _, _)
SetChannels(reg, brushes, sources, i) ==
    IF i > Len(sources) THEN Returns(brushes)
    ELSE LET set == setColorChannelBrush(reg, brushes, i - 1, sources[i])
         IN  IF set.threw THEN set
             ELSE SetChannels(reg, set.value, sources, i + 1)

NoResult == [op |-> "none"]

\* ---------------------------------------------------------------- state
IdleLoad ==
    [pc |-> "idle", treePath |-> <<>>, bufferStats |-> NoStats,
     pointCloudBufferStats |-> NoStats, brushes |-> <<>>, totalPoints |-> 0,
     outputBuffer |-> ZeroBuffer(0, 3), sent |-> <<>>, staging |-> <<>>,
     flushed |-> FALSE]

IdleDriver ==
    [pc |-> "idle", node |-> 0, brushes |-> <<>>, pointCloudBufferStats |-> NoStats,
     sent |-> <<>>, updateFlag |-> FALSE, flushed |-> FALSE]

\* Every key the registry can hold here.
BrushKeys == DOMAIN StockBrushes \cup { BrushKey(n[1], n[2]) : n \in BrushNames }

\* workerFailed: the loads and drivers whose worker job failed; registered: for
\* each key the class of its latest registerBrush, <<>> once deregistered.
NoHistory ==
    [workerFailed |-> {},
     registered |-> [key \in BrushKeys |->
                        IF key \in DOMAIN StockBrushes THEN << StockBrushes[key] >>
                        ELSE << >>]]

Init ==
    /\ pointCloudBufferStats = NoStats
    /\ nodes = << >>
    /\ nodeObjs = << >>
    /\ recolorTasks = << >>
    /\ recolorRunning = FALSE
    /\ lockedNodes = << >>
    /\ brush = [k \in LoadIds |-> << >>]
    /\ load = [k \in LoadIds |-> IdleLoad]
    /\ driver = [d \in DriverIds |-> IdleDriver]
    /\ nextLoad = 1
    /\ renderRequests = 0
    /\ flushes = 0
    /\ removes = 0
    /\ history = NoHistory
    /\ availableBrushes = StockBrushes
    /\ loaderBrushes = null
    /\ result = NoResult
    /\ pointBuffers = << >>
    /\ bufferLoads = << >>
    /\ scene = {}
    /\ attribs = {}
    /\ statsNodes = {}
    /\ currentMode = Camera
    /\ dragging = FALSE
    /\ active = null
    /\ lastHoveredEntity = null
    /\ lockedMode = null
    /\ actionListeners = 0
    /\ synthClickEventInfo = NoClickInfo
    /\ documentListeners = FALSE
    /\ handled = NotHandled

\* Node objects nothing refers to any more are dropped (garbage collection).
Reachable(nds, tasks, drv) ==
    { nds[p] : p \in DOMAIN nds }
        \cup { tasks[i].node : i \in DOMAIN tasks }
        \cup { drv[d].node : d \in { e \in DriverIds : drv[e].pc # "idle" } }

Collect(objs, nds, tasks, drv) ==
    [o \in DOMAIN objs \cap Reachable(nds, tasks, drv) |-> objs[o]]

InFlight(pc) == pc \in { "prepared", "coloring", "unprepared" }

\* The loads whose brush instances a load in flight, a task or a driver holds.
BrushHolders(ld, tasks, drv) ==
    { k \in LoadIds : InFlight(ld[k].pc) }
        \cup { tasks[i].brushes[x][1] : <<i, x>> \in
                    { <<j, y>> \in (DOMAIN tasks) \X (0..3) : y \in DOMAIN tasks[j].brushes } }
        \cup { drv[d].brushes[x][1] : <<d, x>> \in
                    { <<e, y>> \in DriverIds \X (0..3) :
                        drv[e].pc # "idle" /\ y \in DOMAIN drv[e].brushes } }

CollectBrushes(br, ld, tasks, drv) ==
    [k \in LoadIds |-> IF k \in BrushHolders(ld, tasks, drv) THEN br[k] ELSE << >>]

\* ------------------------------------------------------------------ push
\* _internalLoad from the stats merge to the call of push, and push up to the
\* await of the brushes' prepare (LocalRamp.prepare has no await of its own).
StartLoad(k, treePath, bufferStats, brushes) ==
    /\ k = nextLoad
    /\ k <= MaxLoads
    /\ load[k].pc = "idle"
    /\ Cardinality({ j \in LoadIds : InFlight(load[j].pc) }) < MaxInFlight
    /\ LET merged == mergedStats(pointCloudBufferStats, bufferStats) IN
        /\ pointCloudBufferStats' = merged
        /\ load' = [load EXCEPT ![k] =
                [IdleLoad EXCEPT
                    !.pc = "prepared", !.treePath = treePath,
                    !.bufferStats = bufferStats, !.pointCloudBufferStats = merged,
                    !.brushes = brushes, !.totalPoints = TotalPointsOf(bufferStats)]]
        /\ brush' = [brush EXCEPT ![k] =
                [i \in 1..Len(brushes) |-> prepare(NewBrush(brushes[i]), merged)]]
    /\ nextLoad' = k + 1
    /\ UNCHANGED << uiVars, factoryVars, history, nodes, nodeObjs, recolorTasks, recolorRunning, lockedNodes,
                    driver, renderRequests, flushes, removes >>

\* push: allocate the output buffer, _lockNode (not awaited), and
\* _copyAndColorBuffer up to the await of colorWorkerManager.push.
PushDispatch(k) ==
    /\ load[k].pc = "prepared"
    /\ LET newPointSize == 3 + Len(load[k].brushes) IN
        load' = [load EXCEPT ![k] =
            [@ EXCEPT !.pc = "coloring",
                      !.outputBuffer = ZeroBuffer(load[k].totalPoints * newPointSize,
                                                  newPointSize),
                      !.sent = [i \in 1..Len(brush[k]) |-> beginTransfer(brush[k][i])]]]
    /\ lockedNodes' = lockNode(load[k].treePath, <<"push", k>>)
    /\ UNCHANGED << uiVars, factoryVars, history, pointCloudBufferStats, nodes, nodeObjs, recolorTasks,
                    recolorRunning, brush, driver, nextLoad, renderRequests,
                    flushes, removes >>

\* The worker job of push fails: the await throws and push rejects.
PushWorkerFailed(k) ==
    /\ WorkerMayFail
    /\ load[k].pc = "coloring"
    /\ load' = [load EXCEPT ![k] = [IdleLoad EXCEPT !.pc = "failed",
                                                     !.treePath = load[k].treePath]]
    /\ brush' = CollectBrushes(brush, load', recolorTasks, driver)
    /\ history' = [history EXCEPT !.workerFailed = @ \cup {<<"push", load[k].treePath>>}]
    /\ UNCHANGED << uiVars, factoryVars, pointCloudBufferStats, nodes, nodeObjs, recolorTasks,
                    recolorRunning, lockedNodes, driver, nextLoad,
                    renderRequests, flushes, removes >>

\* push after the worker job: take the buffers back, _releaseNode, collect the
\* staging attributes and unprepare the brushes (up to the await of unprepare).
PushColored(k) ==
    /\ load[k].pc = "coloring"
    /\ LET key == load[k].treePath
           back == [i \in 1..Len(brush[k]) |-> endTransfer(brush[k][i], load[k].sent[i])]
       IN
        /\ load' = [load EXCEPT ![k] =
                [@ EXCEPT !.pc = "unprepared",
                          !.outputBuffer = ColorWorker(load[k].outputBuffer, load[k].sent),
                          !.sent = <<>>,
                          !.staging = [i \in 1..Len(back) |-> stagingAttributes(back[i])]]]
        /\ brush' = [brush EXCEPT ![k] = [i \in 1..Len(back) |-> unprepare(back[i])]]
        /\ lockedNodes' = releaseNode(key)
        /\ driver' = resumeWaiter(driver, Released(key))
    /\ UNCHANGED << uiVars, factoryVars, history, pointCloudBufferStats, nodes, nodeObjs, recolorTasks,
                    recolorRunning, nextLoad, renderRequests, flushes, removes >>

\* ------------------------------------------------------------ tree paths
\* Char codes of the path alphabet: Array.prototype.sort compares code units.
CharCode(c) ==
    CASE c = "0" -> 48 [] c = "1" -> 49 [] c = "2" -> 50 [] c = "3" -> 51
      [] c = "4" -> 52 [] c = "5" -> 53 [] c = "6" -> 54 [] c = "7" -> 55
      [] c = "R" -> 82

RECURSIVE StringLess(_, _)
StringLess(a, b) ==
    IF a = <<>> THEN b # <<>>
    ELSE IF b = <<>> THEN FALSE
    ELSE IF Head(a) = Head(b) THEN StringLess(Tail(a), Tail(b))
    ELSE CharCode(Head(a)) < CharCode(Head(b))

\* Object.keys(...).sort(): the paths of S in ascending order.
\* (SortPathsDescending: the variant that sorts the other way round.)
RECURSIVE SortPathsDescending(_)
SortPathsDescending(S) ==
    IF S = {} THEN <<>>
    ELSE LET m == CHOOSE x \in S : \A y \in S \ {x} : StringLess(y, x)
         IN  <<m>> \o SortPathsDescending(S \ {m})

RECURSIVE SortPaths(_)
SortPaths(S) ==
    IF S = {} THEN <<>>
    ELSE LET m == CHOOSE x \in S : \A y \in S \ {x} : StringLess(x, y)
         IN  <<m>> \o SortPaths(S \ {m})

Substring(tp, n) == SubSeq(tp, 1, n)

\* _nodeAncestors: the cached nodes on the way up from treePath, nearest first.
RECURSIVE AncestorsFrom(_, _)
AncestorsFrom(nds, tp) ==
    IF Len(tp) > 0
    THEN (IF tp \in DOMAIN nds THEN << nds[tp] >> ELSE <<>>)
            \o AncestorsFrom(nds, Substring(tp, Len(tp) - 1))
    ELSE <<>>

\* (nodeAncestorsWithSelf: the variant that does not strip the node's own id.)
nodeAncestorsWithSelf(nds, treePath) == AncestorsFrom(nds, treePath)
nodeAncestors(nds, treePath) ==
    IF Len(treePath) > 1 THEN AncestorsFrom(nds, Substring(treePath, Len(treePath) - 1))
    ELSE <<>>

\* -------------------------------------------------------- recolor queue
\* The index of the queued task for the node's tree path, 0 for -1.
\* (FoundIndexNever: the variant that never finds one.)
FoundIndexNever(tasks, objs, node) == 0
FoundIndex(tasks, objs, node) ==
    LET hits == { j \in DOMAIN tasks : objs[tasks[j].node].treePath = objs[node].treePath }
    IN  IF hits = {} THEN 0 ELSE SetMin(hits)

RemoveAt(seq, j) == SubSeq(seq, 1, j - 1) \o SubSeq(seq, j + 1, Len(seq))

\* One pass of the loop of _queueRecolorTasks, for impactedNodes[i]. The
\* variant updates the entry it finds where it is.
queueOneInPlace(tasks, objs, imp, stats) ==
    LET found == FoundIndex(tasks, objs, imp.node) IN
    IF found > 0
    THEN [tasks EXCEPT ![found].brushes = (imp.index :> imp.brush) @@ @]
    ELSE Append(tasks, [node |-> imp.node,
                        brushes |-> (imp.index :> imp.brush),
                        pointCloudBufferStats |-> stats])
queueOne(tasks, objs, imp, stats) ==
    LET found == FoundIndex(tasks, objs, imp.node) IN
    IF found > 0
    THEN Append(RemoveAt(tasks, found),
                [tasks[found] EXCEPT !.brushes = (imp.index :> imp.brush) @@ @])
    ELSE Append(tasks, [node |-> imp.node,
                        brushes |-> (imp.index :> imp.brush),
                        pointCloudBufferStats |-> stats])

RECURSIVE queueRecolorTasks(_, _, _, _)
queueRecolorTasks(tasks, objs, impactedNodes, stats) ==
    IF impactedNodes = <<>> THEN tasks
    ELSE queueRecolorTasks(queueOne(tasks, objs, Head(impactedNodes), stats),
                           objs, Tail(impactedNodes), stats)

\* The nodes one brush of a push selects, in the order they are tested.
\* (nodeSetOfAll: the variant that selects all nodes whatever the strategy.)
nodeSetOfAll(nds, treePath, strategy) ==
    LET ids == SortPaths(DOMAIN nds \ {treePath})
    IN  [j \in 1..Len(ids) |-> nds[ids[j]]]
nodeSet(nds, treePath, strategy) ==
    IF strategy = "ALL"
    THEN LET ids == SortPaths(DOMAIN nds \ {treePath})
         IN  [j \in 1..Len(ids) |-> nds[ids[j]]]
    ELSE IF strategy = "ANCESTORS" THEN nodeAncestors(nds, treePath)
    ELSE <<>>

hasImpactUnstagedOnly(objs, node, index, params) ==
    index \notin DOMAIN objs[node].stagingAttributes
hasImpact(objs, node, index, params) ==
    IF index \notin DOMAIN objs[node].stagingAttributes THEN TRUE
    ELSE bufferNeedsRecolor(params, objs[node].stagingAttributes[index])

\* impactedNodes of push: brush by brush, each over its node set.
RECURSIVE impactedFrom(_, _, _, _, _, _)
impactedFrom(k, index, brushes, nds, objs, p) ==
    IF index >= Len(brushes) THEN <<>>
    ELSE LET sel == nodeSelectionStrategy(brushes[index + 1], p.pointCloudBufferStats)
             set == nodeSet(nds, p.treePath, sel.strategy)
             Hit(node) == hasImpact(objs, node, index, sel.params)
             hits == SelectSeq(set, Hit)
         IN  [j \in 1..Len(hits) |->
                    [brush |-> <<k, index + 1>>, node |-> hits[j], index |-> index]]
                \o impactedFrom(k, index + 1, brushes, nds, objs, p)

\* The least driver id not in use: a new activation of _startRecolor.
FreeDriver(drv) == SetMin({ d \in DriverIds : drv[d].pc = "idle" })

\* _startRecolor / the head of its loop: shift a task and enter _recolorNode,
\* up to its await of Promise.delay(0).
\* this.recolorTasks.shift(): the task at the head. The variant takes the one
\* at the tail.
nextTaskFromTail(tasks) == tasks[Len(tasks)]
nextTask(tasks) == tasks[1]

takeTask(task) ==
    [IdleDriver EXCEPT !.pc = "delay", !.node = task.node, !.brushes = task.brushes,
                       !.pointCloudBufferStats = task.pointCloudBufferStats]

\* if (!this._recolorRunning) this._startRecolor(): whether a driver starts and
\* takes a task (with an empty queue _startRecolor returns at once). The
\* variant never starts one.
startsRecolorNever(running, tasks) == FALSE
startsRecolor(running, tasks) == ~running /\ tasks # <<>>

\* push after unprepare: cache the node, find the impacted nodes, queue their
\* recolor (_queueRecolorTasks, which starts _startRecolor when none runs).
PushInsert(k) ==
    /\ load[k].pc = "unprepared"
    /\ LET p == load[k]
           n == Len(p.brushes)
           obj == [treePath |-> p.treePath, totalPoints |-> p.totalPoints,
                   dataPointSize |-> 3 + n, bufferStats |-> p.bufferStats,
                   stagingAttributes |-> [i \in 0..(n - 1) |-> p.staging[i + 1]],
                   buf |-> p.outputBuffer, update |-> FALSE]
           nds == (p.treePath :> k) @@ nodes
           objs == (k :> obj) @@ nodeObjs
           impactedNodes == impactedFrom(k, 0, p.brushes, nds, objs, p)
           tasks == queueRecolorTasks(recolorTasks, objs, impactedNodes,
                                      p.pointCloudBufferStats)
           start == startsRecolor(recolorRunning, tasks)
       IN
        /\ start => \E d \in DriverIds : driver[d].pc = "idle"
        /\ nodes' = nds
        /\ recolorTasks' = IF start THEN Tail(tasks) ELSE tasks
        /\ driver' = IF start
                     THEN [driver EXCEPT ![FreeDriver(driver)] = takeTask(nextTask(tasks))]
                     ELSE driver
        /\ recolorRunning' = (recolorRunning \/ start)
        /\ nodeObjs' = Collect(objs, nodes', recolorTasks', driver')
        /\ load' = [load EXCEPT ![k] = [IdleLoad EXCEPT !.pc = "done"]]
        /\ brush' = CollectBrushes(brush, load', recolorTasks', driver')
    /\ UNCHANGED << uiVars, factoryVars, history, pointCloudBufferStats, lockedNodes, nextLoad,
                    renderRequests, flushes, removes >>

\* ---------------------------------------------------------- remove, flush
\* v[1] of a task [node, brushes, params] is its brushes array, which has no
\* treePath property: undefined.
TaskTreePath(objs, task) == <<>>

remove(treePath) ==
    /\ removes < MaxRemove
    /\ removes' = removes + 1
    /\ nodes' = [q \in DOMAIN nodes \ {treePath} |-> nodes[q]]
    /\ LET Keep(v) == TaskTreePath(nodeObjs, v) # treePath
       IN  recolorTasks' = SelectSeq(recolorTasks, Keep)
    /\ nodeObjs' = Collect(nodeObjs, nodes', recolorTasks', driver)
    /\ UNCHANGED << uiVars, factoryVars, history, pointCloudBufferStats, recolorRunning, lockedNodes, brush, load,
                    driver, nextLoad, renderRequests, flushes >>

flush ==
    /\ flushes < MaxFlush
    /\ flushes' = flushes + 1
    /\ nodes' = << >>
    /\ recolorTasks' = << >>
    /\ recolorRunning' = FALSE
    /\ load' = [k \in LoadIds |->
                    IF InFlight(load[k].pc) THEN [load[k] EXCEPT !.flushed = TRUE]
                    ELSE load[k]]
    /\ driver' = [d \in DriverIds |->
                    IF driver[d].pc # "idle" THEN [driver[d] EXCEPT !.flushed = TRUE]
                    ELSE driver[d]]
    /\ nodeObjs' = Collect(nodeObjs, nodes', recolorTasks', driver')
    /\ brush' = CollectBrushes(brush, load', recolorTasks', driver')
    /\ UNCHANGED << uiVars, factoryVars, history, pointCloudBufferStats, lockedNodes, nextLoad,
                    renderRequests, removes >>

\* ---------------------------------------------------------- _recolorNode
\* The brush instance a task holds at an index, and its kind.
BrushAt(ref) == brush[ref[1]][ref[2]]

\* The instances a task refers to (refs: index -> ref).
RefSet(refs) == { refs[x] : x \in DOMAIN refs }

\* brush with the instances of refs replaced by their new value (ref -> brush).
WithBrushes(refs, new) ==
    [k \in LoadIds |->
        [i \in DOMAIN brush[k] |->
            IF <<k, i>> \in RefSet(refs) THEN new[<<k, i>>] ELSE brush[k][i]]]

\* _recolorNode after Promise.delay(0): prepare every brush of the task with the
\* stats the task was queued with (up to the await of the prepares).
RecolorPrepare(d) ==
    /\ driver[d].pc = "delay"
    /\ LET Prep == [ref \in RefSet(driver[d].brushes) |->
                        prepare(BrushAt(ref), driver[d].pointCloudBufferStats)]
       IN  brush' = WithBrushes(driver[d].brushes, Prep)
    /\ driver' = [driver EXCEPT ![d].pc = "prepared"]
    /\ UNCHANGED << uiVars, factoryVars, history, pointCloudBufferStats, nodes, nodeObjs, recolorTasks,
                    recolorRunning, lockedNodes, load, nextLoad, renderRequests,
                    flushes, removes >>

\* await this._lockNode(node): taken at once, or wait for a resolve().
RecolorLock(d) ==
    /\ driver[d].pc = "prepared"
    /\ LET key == nodeObjs[driver[d].node].treePath IN
        /\ lockedNodes' = lockNode(key, <<"recolor", d>>)
        /\ driver' = [driver EXCEPT ![d].pc = IF LockFree(key) THEN "locked" ELSE "waiting"]
    /\ UNCHANGED << uiVars, factoryVars, history, pointCloudBufferStats, nodes, nodeObjs, recolorTasks,
                    recolorRunning, brush, load, nextLoad, renderRequests, flushes,
                    removes >>

\* beginTransferForBrushes: the parameters of the non-null brushes, in index order.
RECURSIVE transferParams(_, _)
transferParams(refs, from) ==
    LET rest == { x \in DOMAIN refs : x >= from } IN
    IF rest = {} THEN <<>>
    ELSE << beginTransfer(BrushAt(refs[SetMin(rest)])) >>
            \o transferParams(refs, SetMin(rest) + 1)

\* _recolorNode with the lock: read the node's buffer and update flag and
\* dispatch the worker job (up to the await in _copyAndColorBuffer).
RecolorDispatch(d) ==
    /\ driver[d].pc = "locked"
    /\ driver' = [driver EXCEPT ![d] =
            [@ EXCEPT !.pc = "coloring",
                      !.updateFlag = nodeObjs[driver[d].node].update,
                      !.sent = transferParams(driver[d].brushes, 0)]]
    /\ UNCHANGED << uiVars, factoryVars, history, pointCloudBufferStats, nodes, nodeObjs, recolorTasks,
                    recolorRunning, lockedNodes, brush, load, nextLoad,
                    renderRequests, flushes, removes >>

\* The worker job of a recolor fails: _recolorNode and _startRecolor throw.
RecolorWorkerFailed(d) ==
    /\ WorkerMayFail
    /\ driver[d].pc = "coloring"
    /\ driver' = [driver EXCEPT ![d] = IdleDriver]
    /\ nodeObjs' = Collect(nodeObjs, nodes, recolorTasks, driver')
    /\ brush' = CollectBrushes(brush, load, recolorTasks, driver')
    /\ history' = [history EXCEPT
            !.workerFailed = @ \cup {<<"recolor", nodeObjs[driver[d].node].treePath>>}]
    /\ UNCHANGED << uiVars, factoryVars, pointCloudBufferStats, nodes, recolorTasks, recolorRunning,
                    lockedNodes, load, nextLoad, renderRequests, flushes,
                    removes >>

\* endTransferOntoBrushes calls ontoBrushes[i].endTransfer for every i below the
\* number of parameters that came back: a TypeError when the task's brushes
\* array has a hole there.
TransferThrows(refs, sent) == \E i \in 0..(Len(sent) - 1) : i \notin DOMAIN refs

\* The j-th parameters that came back go to the brush at index j.
Returned(refs, sent, ref) ==
    LET x == CHOOSE y \in DOMAIN refs : refs[y] = ref
    IN  IF x < Len(sent) THEN endTransfer(BrushAt(ref), sent[x + 1]) ELSE BrushAt(ref)

\* _recolorNode after the worker job: take the brushes back (which may throw,
\* and then _recolorNode and _startRecolor throw), store the buffers on the
\* node, restore its update flag, and _releaseNode (awaited).
RecolorColored(d) ==
    /\ driver[d].pc = "coloring"
    /\ LET node == driver[d].node
           key == nodeObjs[node].treePath
           Back == [ref \in RefSet(driver[d].brushes) |->
                        Returned(driver[d].brushes, driver[d].sent, ref)]
       IN
        IF TransferThrows(driver[d].brushes, driver[d].sent)
        THEN /\ driver' = [driver EXCEPT ![d] = IdleDriver]
             /\ nodeObjs' = Collect(nodeObjs, nodes, recolorTasks, driver')
             /\ brush' = CollectBrushes(brush, load, recolorTasks, driver')
             /\ UNCHANGED lockedNodes
        ELSE /\ nodeObjs' = [nodeObjs EXCEPT ![node] =
                    [@ EXCEPT !.buf = ColorWorker(nodeObjs[node].buf, driver[d].sent),
                              !.update = driver[d].updateFlag]]
             /\ brush' = WithBrushes(driver[d].brushes, Back)
             /\ lockedNodes' = releaseNode(key)
             /\ driver' = resumeWaiter([driver EXCEPT ![d] = [@ EXCEPT !.pc = "released",
                                                                       !.sent = <<>>]],
                                       Released(key))
    /\ UNCHANGED << uiVars, factoryVars, history, pointCloudBufferStats, nodes, recolorTasks, recolorRunning,
                    load, nextLoad, renderRequests, flushes, removes >>

\* node.stagingAttributes[index] = newStagingAttributes for every brush of the
\* task: the node's staging attributes afterwards. The variant replaces the
\* whole object by the task's attributes.
stageAttributesReplacing(staged, new) == new
stageAttributes(staged, new) == new @@ staged

\* _recolorNode after the release: write the new staging attributes of the
\* task's brushes on the node and unprepare them (up to the await).
RecolorStage(d) ==
    /\ driver[d].pc = "released"
    /\ LET node == driver[d].node
           refs == driver[d].brushes
           Unprep == [ref \in RefSet(refs) |-> unprepare(BrushAt(ref))]
       IN
        /\ nodeObjs' = [nodeObjs EXCEPT ![node].stagingAttributes =
                stageAttributes(@, [x \in DOMAIN refs |-> stagingAttributes(BrushAt(refs[x]))])]
        /\ brush' = WithBrushes(refs, Unprep)
    /\ driver' = [driver EXCEPT ![d].pc = "unprepared"]
    /\ UNCHANGED << uiVars, factoryVars, history, pointCloudBufferStats, nodes, recolorTasks, recolorRunning,
                    lockedNodes, load, nextLoad, renderRequests, flushes, removes >>

\* if (this.renderRequestFunction) this.renderRequestFunction(): the number of
\* calls afterwards (a render request function is set). renderRequestSkipped
\* is the variant that does not call it.
renderRequestSkipped(calls) == calls
renderRequestFunction(calls) == calls + 1

\* _startRecolor after _recolorNode returned: mark the node updated, call the
\* render request function, then shift the next task or clear _recolorRunning.
RecolorFinish(d) ==
    /\ driver[d].pc = "unprepared"
    /\ LET objs == [nodeObjs EXCEPT ![driver[d].node].update = TRUE] IN
        /\ renderRequests' = renderRequestFunction(renderRequests)
        /\ IF recolorTasks # <<>>
           THEN /\ driver' = [driver EXCEPT ![d] = takeTask(nextTask(recolorTasks))]
                /\ recolorTasks' = Tail(recolorTasks)
                /\ UNCHANGED recolorRunning
           ELSE /\ driver' = [driver EXCEPT ![d] = IdleDriver]
                /\ recolorRunning' = FALSE
                /\ UNCHANGED recolorTasks
        /\ nodeObjs' = Collect(objs, nodes, recolorTasks', driver')
        /\ brush' = CollectBrushes(brush, load, recolorTasks', driver')
    /\ UNCHANGED << uiVars, factoryVars, history, pointCloudBufferStats, nodes, lockedNodes, load,
                    nextLoad, flushes, removes >>

\* ------------------------------------------------ calls of the brush API
\* BrushFactory.registerBrush(scheme, name, klass)
RegisterBrush(scheme, name, klass) ==
    /\ availableBrushes' = registerBrush(availableBrushes, scheme, name, klass)
    /\ result' = [op |-> "registerBrush", args |-> << scheme, name, klass >>,
                  out |-> Returns(null)]
    /\ history' = [history EXCEPT !.registered[BrushKey(scheme, name)] = << klass >>]
    /\ UNCHANGED << uiVars, cacheVars, loaderBrushes >>

\* BrushFactory.deregisterBrush(scheme, name)
DeregisterBrush(scheme, name) ==
    /\ availableBrushes' = deregisterBrush(availableBrushes, scheme, name)
    /\ result' = [op |-> "deregisterBrush", args |-> << scheme, name >>,
                  out |-> Returns(null)]
    /\ history' = [history EXCEPT !.registered[BrushKey(scheme, name)] = << >>]
    /\ UNCHANGED << uiVars, cacheVars, loaderBrushes >>

\* BrushFactory.createBrush(spec)
CreateBrush(spec) ==
    /\ result' = [op |-> "createBrush", args |-> << spec >>,
                  out |-> createBrush(availableBrushes, spec)]
    /\ UNCHANGED << uiVars, cacheVars, history, availableBrushes, loaderBrushes >>

\* BrushFactory.availableBrushes()
AvailableBrushes ==
    /\ result' = [op |-> "availableBrushes", args |-> << >>,
                  out |-> Returns(availableBrushesKeys(availableBrushes))]
    /\ UNCHANGED << uiVars, cacheVars, history, availableBrushes, loaderBrushes >>

\* new GreyhoundPipelineLoader(resourceConfig, schema, {brushes: sources}): a
\* constructor that throws leaves no loader behind, the one there was stays.
NewLoader(sources) ==
    LET set == SetChannels(availableBrushes, NoChannels, sources, 1)
    IN  /\ loaderBrushes' = IF set.threw THEN loaderBrushes ELSE set.value
        /\ result' = [op |-> "constructor", args |-> << sources >>,
                      out |-> IF set.threw THEN set ELSE Returns(null)]
        /\ UNCHANGED << uiVars, cacheVars, history, availableBrushes >>

\* loader.setColorChannelBrush(index, source)
SetColorChannelBrush(index, source) ==
    /\ loaderBrushes # null
    /\ LET set == setColorChannelBrush(availableBrushes, loaderBrushes, index, source)
       IN  /\ loaderBrushes' = IF set.threw THEN loaderBrushes ELSE set.value
           /\ result' = [op |-> "setColorChannelBrush", args |-> << index, source >>,
                         out |-> IF set.threw THEN set ELSE Returns(null)]
    /\ UNCHANGED << uiVars, cacheVars, history, availableBrushes >>

\* queryFor serializes the loader's brushes, _internalLoad deserializes them.
DeserializeBrushes ==
    /\ loaderBrushes # null
    /\ result' = [op |-> "deserializeBrushes", args |-> << loaderBrushes >>,
                  out |-> deserializeBrushes(availableBrushes,
                                             serializeBrushes(loaderBrushes))]
    /\ UNCHANGED << uiVars, cacheVars, history, availableBrushes, loaderBrushes >>

\* ------------------------------------------------ calls on a ramp brush
\* new LocalRamp(spec, ...) with the given field and step, then prepare(stats).
RampPrepare(kind, step, stats) ==
    /\ result' = [op |-> "prepare", brush |-> prepare(LocalRamp(kind, step), stats),
                  stats |-> stats, out |-> null]
    /\ UNCHANGED << uiVars, cacheVars, history, availableBrushes, loaderBrushes >>

\* colorPoint(color, point) on the prepared brush.
RampColorPoint(point) ==
    /\ "brush" \in DOMAIN result
    /\ result' = [result EXCEPT !.op = "colorPoint",
                                !.out = << point, colorPoint(result.brush, point) >>]
    /\ UNCHANGED << uiVars, cacheVars, history, availableBrushes, loaderBrushes >>

\* stagingAttributes() of the prepared brush.
RampStagingAttributes ==
    /\ "brush" \in DOMAIN result
    /\ result' = [result EXCEPT !.op = "stagingAttributes",
                                !.out = stagingAttributes(result.brush)]
    /\ UNCHANGED << uiVars, cacheVars, history, availableBrushes, loaderBrushes >>

\* nodeSelectionStrategy({pointCloudBufferStats}) with the stats of the prepare.
RampNodeSelectionStrategy ==
    /\ "brush" \in DOMAIN result
    /\ result' = [result EXCEPT !.op = "nodeSelectionStrategy",
                                !.out = nodeSelectionStrategy(result.brush.kind,
                                                              result.stats)]
    /\ UNCHANGED << uiVars, cacheVars, history, availableBrushes, loaderBrushes >>

\* push's impact test: a tile staged by the prepared brush, tested with the
\* same brush against the stats of a pushing tile whose strategy is ALL.
RampBufferNeedsRecolor(pushed) ==
    /\ "brush" \in DOMAIN result
    /\ LET sel == nodeSelectionStrategy(result.brush.kind, pushed)
       IN  /\ sel.strategy = "ALL"
           /\ result' = [result EXCEPT
                    !.op = "bufferNeedsRecolor",
                    !.out = << pushed,
                               bufferNeedsRecolor(sel.params,
                                                  stagingAttributes(result.brush)) >>]
    /\ UNCHANGED << uiVars, cacheVars, history, availableBrushes, loaderBrushes >>

\* beginTransfer on the prepared brush, endTransfer on a brush of the other
\* side, newly created or in use before.
RampTransfer(receiver) ==
    /\ "brush" \in DOMAIN result
    /\ result' = [result EXCEPT !.op = "endTransfer",
                                !.out = endTransfer(receiver, beginTransfer(result.brush))]
    /\ UNCHANGED << uiVars, cacheVars, history, availableBrushes, loaderBrushes >>

\* -------------------------------------------- renderer: point buffers
MaxBufferLoads == 4

\* changes: the keys of the scene that are not in the map, and the keys of the
\* map that are no longer in the scene.
newKeys(ks, obj) == ks \ DOMAIN obj
delKeys(ks, obj) == DOMAIN obj \ ks

\* The create function's value for a new buffer id, {:visible true}.
VisibleBuffer == [visible |-> TRUE, attribsId |-> << >>]

\* The create function starts one go block per new buffer id.
RECURSIVE startLoads(_, _)
startLoads(loads, ids) ==
    IF ids = {} THEN loads
    ELSE LET id == CHOOSE i \in ids : TRUE
         IN  startLoads(Append(loads, [id |-> id, pc |-> "loading"]), ids \ {id})

\* The destroy function: the attribs of a removed buffer to unreify.
attribsOf(buf) == IF buf = null THEN {} ELSE { buf.attribsId[i] : i \in DOMAIN buf.attribsId }

\* The function a completed load transacts with: nil stays nil, a buffer gets
\* its attribs id.
withAttribs(v, attribsId) ==
    IF v = null THEN null ELSE [v EXCEPT !.attribsId = << attribsId >>]

\* StateCursor.transact! below the cursor: swap! root-state update-in path f,
\* which associates the key with f's value whatever it is.
transact(obj, k, new) == (k :> new) @@ obj

\* update-point-buffers: add-remove of the scene's buffer ids against the map.
UpdatePointBuffers(statePb) ==
    /\ Len(bufferLoads) + Cardinality(newKeys(statePb, pointBuffers)) <= MaxBufferLoads
    /\ LET added == newKeys(statePb, pointBuffers)
           removed == delKeys(statePb, pointBuffers)
       IN
        /\ attribs' = attribs \ UNION { attribsOf(pointBuffers[k]) : k \in removed }
        /\ bufferLoads' = startLoads(bufferLoads, added)
        /\ pointBuffers' = [k \in (DOMAIN pointBuffers \ removed) \cup added |->
                                IF k \in added THEN VisibleBuffer ELSE pointBuffers[k]]
    /\ scene' = statePb
    /\ UNCHANGED << modeVars, factoryVars, cacheVars, history, statsNodes >>

\* The go block of a buffer id after its components are loaded: update-stats!
\* and the transact! on the buffer's key.
LoadCompletes(l, hasPointBuffer) ==
    /\ l \in DOMAIN bufferLoads
    /\ bufferLoads[l].pc = "loading"
    /\ LET id == bufferLoads[l].id
           v == IF id \in DOMAIN pointBuffers THEN pointBuffers[id] ELSE null
       IN
        /\ statsNodes' = IF hasPointBuffer THEN statsNodes \cup {id} ELSE statsNodes
        /\ attribs' = IF v = null THEN attribs ELSE attribs \cup {l}
        /\ pointBuffers' = transact(pointBuffers, id, withAttribs(v, l))
    /\ bufferLoads' = [bufferLoads EXCEPT ![l].pc = "done"]
    /\ UNCHANGED << modeVars, factoryVars, cacheVars, history, scene >>

\* ------------------------------------------------------- mode manager
MaxListeners == 2

\* The entity managers, by name.
EntityManagers == { "point", "line" }

\* entityToManager: the manager of the picked entity's type, if any.
entityToManager(entity) ==
    IF entity # null /\ entity.type \in EntityManagers THEN << entity.type >> ELSE null

\* isSameEntity; the manager's own comparison is taken to be identity.
isSameEntity(a, b) ==
    IF a = null /\ b = null THEN TRUE
    ELSE IF a = null \/ b = null THEN FALSE
    ELSE IF a.type = b.type THEN a.type \in EntityManagers /\ a = b
    ELSE FALSE

\* if (this.lockedMode): whether a handler takes the branch of the mode lock.
\* The variant never takes it.
modeLockNever(locked) == FALSE
modeLockOn(locked) == locked # null

\* invokeHandler(name, ...) on a mode.
Invoke(to, name) == [to |-> to, name |-> name]

\* A mode's handler may call lockMode or unlockMode on the manager while it
\* runs: lockedMode afterwards.
lockAfter(locked, calls) ==
    CASE calls = "lockMode" -> currentMode
      [] calls = "unlockMode" -> null
      [] OTHER -> locked

\* What a handler reports: the event, the mode lock when it was raised, the
\* invokeHandler calls, the action listeners called, whether it threw.
Handled(event, delivered, notified, threw) ==
    [event |-> event, locked |-> lockedMode, delivered |-> delivered,
     notified |-> notified, threw |-> threw]

mouseDownHandler(entity, calls) ==
    /\ IF modeLockOn(lockedMode)
       THEN /\ handled' = Handled("mousedown", << Invoke(lockedMode, "mouse-down") >>, 0, FALSE)
            /\ lockedMode' = lockAfter(lockedMode, calls)
            /\ UNCHANGED << active, synthClickEventInfo, dragging, documentListeners >>
       ELSE LET entityManager == entityToManager(entity) IN
            /\ IF entityManager # null
               THEN /\ active' = [owner |-> entityManager, entity |-> entity]
                    /\ handled' = Handled("mousedown",
                            << Invoke(entityManager, "mouse-down-on-entity") >>, 0, FALSE)
                    /\ UNCHANGED synthClickEventInfo
               ELSE /\ active' = [owner |-> currentMode, entity |-> null]
                    /\ handled' = Handled("mousedown",
                            << Invoke(currentMode, "mouse-down") >>, 0, FALSE)
                    /\ synthClickEventInfo' = [set |-> TRUE]
            /\ lockedMode' = lockAfter(lockedMode, calls)
            /\ dragging' = IF lockedMode' = null THEN TRUE ELSE dragging
            /\ documentListeners' = TRUE
    /\ UNCHANGED << engineVars, factoryVars, cacheVars, history, currentMode,
                    lastHoveredEntity, actionListeners >>

\* The handler is on the document from the first mouse down that passed the
\* mode lock.
mouseMoveHandler(entity, calls) ==
    /\ documentListeners
    /\ LET leave == IF lastHoveredEntity # null /\ entityToManager(lastHoveredEntity) # null
                    THEN << Invoke(entityToManager(lastHoveredEntity), "mouse-leave") >>
                    ELSE << >>
           enter == IF entity # null /\ entityToManager(entity) # null
                    THEN << Invoke(entityToManager(entity), "mouse-enter") >>
                    ELSE << >>
           delivered ==
                IF modeLockOn(lockedMode) THEN << Invoke(lockedMode, "mouse-move") >>
                ELSE IF dragging
                     THEN IF active # null THEN << Invoke(active.owner, "dragging") >>
                          ELSE << >>
                     ELSE IF ~isSameEntity(entity, lastHoveredEntity) THEN leave \o enter
                          ELSE << >>
       IN
        /\ handled' = Handled("mousemove", delivered, 0, FALSE)
        /\ lockedMode' = IF delivered # << >> THEN lockAfter(lockedMode, calls) ELSE lockedMode
        /\ lastHoveredEntity' =
                IF ~modeLockOn(lockedMode) /\ ~dragging
                        /\ ~isSameEntity(entity, lastHoveredEntity)
                THEN entity ELSE lastHoveredEntity
    /\ UNCHANGED << engineVars, factoryVars, cacheVars, history, currentMode, dragging,
                    active, actionListeners, synthClickEventInfo, documentListeners >>

\* near: the mouse came up within 5 pixels and 500 ms of the mouse down.
\* distThrows: with synthClickEventInfo = {} vec2.dist is called with an
\* undefined position, and either throws or returns NaN. removeEventListener
\* is called without the capture flag the listeners were added with, and
\* removes nothing.
mouseUpHandler(near, distThrows, calls) ==
    /\ documentListeners
    /\ IF modeLockOn(lockedMode)
       THEN /\ handled' = Handled("mouseup", << Invoke(lockedMode, "mouse-up") >>, 0, FALSE)
            /\ lockedMode' = lockAfter(lockedMode, calls)
            /\ UNCHANGED << active, dragging, synthClickEventInfo >>
       ELSE IF active # null
            THEN /\ lockedMode' = lockAfter(lockedMode, calls)
                 /\ IF ~synthClickEventInfo.set /\ distThrows
                    THEN /\ handled' = Handled("mouseup",
                                << Invoke(active.owner, "mouse-up") >>, 0, TRUE)
                         /\ UNCHANGED << active, dragging, synthClickEventInfo >>
                    ELSE /\ handled' = Handled("mouseup",
                                << Invoke(active.owner, "mouse-up") >>
                                    \o IF synthClickEventInfo.set /\ near
                                       THEN << Invoke(active.owner, "synthetic-click") >>
                                       ELSE << >>,
                                0, FALSE)
                         /\ synthClickEventInfo' = NoClickInfo
                         /\ active' = null
                         /\ dragging' = FALSE
            ELSE /\ handled' = Handled("mouseup", << >>, 0, FALSE)
                 /\ dragging' = FALSE
                 /\ UNCHANGED << active, lockedMode, synthClickEventInfo >>
    /\ UNCHANGED << engineVars, factoryVars, cacheVars, history, currentMode,
                    lastHoveredEntity, actionListeners, documentListeners >>

\* doubleClickHandler, clickHandler and mouseWheelHandler.
eventDispatcher(event, eventName, entity, hasHandler, calls) ==
    /\ LET entityManager == entityToManager(entity)
           to == IF modeLockOn(lockedMode) THEN lockedMode
                 ELSE IF entityManager # null /\ hasHandler THEN entityManager
                 ELSE currentMode
       IN  handled' = Handled(event, << Invoke(to, eventName) >>, 0, FALSE)
    /\ lockedMode' = lockAfter(lockedMode, calls)
    /\ UNCHANGED << engineVars, factoryVars, cacheVars, history, currentMode, dragging,
                    active, lastHoveredEntity, actionListeners, synthClickEventInfo,
                    documentListeners >>

contextMenuHandler(entity, calls) ==
    /\ IF modeLockOn(lockedMode)
       THEN /\ handled' = Handled("contextmenu", << >>, 0, FALSE)
            /\ UNCHANGED lockedMode
       ELSE LET entityManager == entityToManager(entity) IN
            /\ handled' = Handled("contextmenu",
                    << IF entityManager # null
                       THEN Invoke(entityManager, "context-menu-on-entity")
                       ELSE Invoke(currentMode, "context-menu") >>,
                    actionListeners, FALSE)
            /\ lockedMode' = lockAfter(lockedMode, calls)
    /\ UNCHANGED << engineVars, factoryVars, cacheVars, history, currentMode, dragging,
                    active, lastHoveredEntity, actionListeners, synthClickEventInfo,
                    documentListeners >>

\* set activeMode(newMode)
activeMode(newMode) ==
    /\ IF newMode = null \/ newMode = Camera
       THEN /\ currentMode' = Camera
            /\ handled' = Handled("activeMode", << >>, 0, FALSE)
       ELSE IF newMode[1] \in EntityManagers
            THEN /\ currentMode' = newMode
                 /\ handled' = Handled("activeMode", << >>, 0, FALSE)
            ELSE /\ handled' = Handled("activeMode", << >>, 0, TRUE)
                 /\ UNCHANGED currentMode
    /\ UNCHANGED << engineVars, factoryVars, cacheVars, history, dragging, active,
                    lastHoveredEntity, lockedMode, actionListeners, synthClickEventInfo,
                    documentListeners >>

addActionListener ==
    /\ actionListeners < MaxListeners
    /\ actionListeners' = actionListeners + 1
    /\ handled' = Handled("addActionListener", << >>, 0, FALSE)
    /\ UNCHANGED << engineVars, factoryVars, cacheVars, history, currentMode, dragging,
                    active, lastHoveredEntity, lockedMode, synthClickEventInfo,
                    documentListeners >>

lockMode ==
    /\ lockedMode' = currentMode
    /\ handled' = Handled("lockMode", << >>, 0, FALSE)
    /\ UNCHANGED << engineVars, factoryVars, cacheVars, history, currentMode, dragging,
                    active, lastHoveredEntity, actionListeners, synthClickEventInfo,
                    documentListeners >>

unlockMode ==
    /\ lockedMode' = null
    /\ handled' = Handled("unlockMode", << >>, 0, FALSE)
    /\ UNCHANGED << engineVars, factoryVars, cacheVars, history, currentMode, dragging,
                    active, lastHoveredEntity, actionListeners, synthClickEventInfo,
                    documentListeners >>

\* ------------------------------------------------------------------ spec
Load == \E k \in LoadIds, tp \in PathSet, st \in TileStats, bs \in BrushVectors :
            StartLoad(k, tp, st, bs)
Dispatch == \E k \in LoadIds : PushDispatch(k)
Colored == \E k \in LoadIds : PushColored(k)
Failed == \E k \in LoadIds : PushWorkerFailed(k)
Insert == \E k \in LoadIds : PushInsert(k)
Remove == \E tp \in PathSet : remove(tp)
Flush == flush
Recolor == \E d \in DriverIds :
            \/ RecolorPrepare(d) \/ RecolorLock(d) \/ RecolorDispatch(d)
            \/ RecolorColored(d) \/ RecolorStage(d) \/ RecolorFinish(d)
RecolorFailed == \E d \in DriverIds : RecolorWorkerFailed(d)

Next ==
    \/ Load \/ Dispatch \/ Colored \/ Failed \/ Insert
    \/ Remove \/ Flush \/ Recolor \/ RecolorFailed

Spec == Init /\ [][Next]_vars

\* The same program with fewer loads.
LoadSmall == nextLoad <= SmallLoads /\ Load

NextSmall ==
    \/ LoadSmall \/ Dispatch \/ Colored \/ Failed \/ Insert
    \/ Remove \/ Flush \/ Recolor \/ RecolorFailed

SpecSmall == Init /\ [][NextSmall]_vars

\* The program with the wide tree: loads one at a time, the recolor driver
\* running beside them; no remove, no flush, no failing worker.
LoadPaths ==
    /\ nextLoad <= MaxPathLoads
    /\ \A j \in LoadIds : ~InFlight(load[j].pc)
    /\ \E k \in LoadIds, tp \in WidePathSet, st \in TileStats, bs \in BrushVectors :
            StartLoad(k, tp, st, bs)

NextPaths == LoadPaths \/ Dispatch \/ Colored \/ Insert \/ Recolor

SpecPaths == Init /\ [][NextPaths]_vars

\* The program with the wide brush vectors (the brushes of the loader changed
\* between loads), in the same way.
LoadBrushes ==
    /\ nextLoad <= MaxBrushLoads
    /\ \A j \in LoadIds : ~InFlight(load[j].pc)
    /\ \E k \in LoadIds, tp \in PathSet, st \in TileStats, bs \in WideBrushVectors :
            StartLoad(k, tp, st, bs)

NextBrushes == LoadBrushes \/ Dispatch \/ Colored \/ Insert \/ Recolor

SpecBrushes == Init /\ [][NextBrushes]_vars

\* The program with the inputs that make the recolor queue coalesce, in the
\* same way.
LoadQueue ==
    /\ nextLoad <= MaxQueueLoads
    /\ \A j \in LoadIds : ~InFlight(load[j].pc)
    /\ \E k \in LoadIds, tp \in QueuePathSet, st \in QueueStats, bs \in BrushVectors :
            StartLoad(k, tp, st, bs)

NextQueue == LoadQueue \/ Dispatch \/ Colored \/ Insert \/ Recolor

SpecQueue == Init /\ [][NextQueue]_vars

\* The event loop runs every continuation that is ready, and (when worker jobs
\* do not fail) every worker job comes back: no push and no driver that can
\* take its next step waits for ever.
Fairness ==
    /\ \A k \in LoadIds : WF_vars(PushDispatch(k) \/ PushColored(k) \/ PushInsert(k))
    /\ \A d \in DriverIds :
          WF_vars(\/ RecolorPrepare(d) \/ RecolorLock(d) \/ RecolorDispatch(d)
                  \/ RecolorColored(d) \/ RecolorStage(d) \/ RecolorFinish(d))

\* The program with the wide brush vectors under that scheduling.
FairBrushes == SpecBrushes /\ Fairness

\* The brush API on its own: registrations, brush creation, and a loader whose
\* channels are set from known and unknown brush specs.
ChannelSources == { null } \cup BrushSpecs
SourceLists == { << >> } \cup [1..1 -> ChannelSources] \cup [1..2 -> ChannelSources]
ChannelIndexes == { 0, 1, ChannelCount }

Register == \E n \in BrushNames, klass \in BrushClasses : RegisterBrush(n[1], n[2], klass)
Deregister == \E n \in BrushNames : DeregisterBrush(n[1], n[2])
Create == \E spec \in BrushSpecs : CreateBrush(spec)
Construct == \E sources \in SourceLists : NewLoader(sources)
SetChannel ==
    \E index \in ChannelIndexes, source \in ChannelSources :
        SetColorChannelBrush(index, source)

NextFactory ==
    \/ Register \/ Deregister \/ Create \/ AvailableBrushes
    \/ Construct \/ SetChannel \/ DeserializeBrushes

SpecFactory == Init /\ [][NextFactory]_vars

\* A ramp brush on its own: fields, steps, histograms and points.
RampBuckets == { 0, 10, 20, 30 }
RampKinds == { "ramp_z", "ramp_intensity" }
RampSteps == { 0, 1, 2 }
RampStats ==
    { [z |-> [b \in RampBuckets |-> IF b \in keys THEN 1 ELSE 0],
       intensity |-> [b \in RampBuckets |-> IF b \in more THEN 1 ELSE 0]] :
      keys \in SUBSET RampBuckets, more \in { {}, { 10, 20 } } }
RampPoints == [y : { 0, 5, 10, 15, 35 }, intensity : { 10, 25 }]
RampReceivers ==
    { LocalRamp(kind, 1) : kind \in RampKinds }
        \cup { prepare(LocalRamp("ramp_z", 1), stats) : stats \in RampStats }

PrepareRamp ==
    \E kind \in RampKinds, step \in RampSteps, stats \in RampStats :
        RampPrepare(kind, step, stats)
ColorPointRamp == \E point \in RampPoints : RampColorPoint(point)
TransferRamp == \E receiver \in RampReceivers : RampTransfer(receiver)
NeedsRecolorRamp == \E pushed \in RampStats : RampBufferNeedsRecolor(pushed)

NextRamp ==
    \/ PrepareRamp \/ ColorPointRamp \/ RampStagingAttributes
    \/ RampNodeSelectionStrategy \/ TransferRamp \/ NeedsRecolorRamp

SpecRamp == Init /\ [][NextRamp]_vars

\* The renderer's point buffers on their own: scenes over two buffer ids.
BufferIds == { "b1", "b2" }
UpdateBuffers == \E statePb \in SUBSET BufferIds : UpdatePointBuffers(statePb)
CompleteLoad == \E l \in 1..MaxBufferLoads, hasPointBuffer \in BOOLEAN :
                    LoadCompletes(l, hasPointBuffer)

NextEngine == UpdateBuffers \/ CompleteLoad

SpecEngine == Init /\ [][NextEngine]_vars

\* The mode manager on its own: the entity under the mouse, what the modes'
\* handlers call back, and the calls of the manager's API.
PickedEntities ==
    { null, [type |-> "point", id |-> 1], [type |-> "line", id |-> 1],
      [type |-> "label", id |-> 1] }
HandlerCalls == { "none", "lockMode", "unlockMode" }
DispatchedEvents ==
    { << "dblclick", "double-click" >>, << "click", "click" >>,
      << "mousewheel", "mouse-wheel" >> }
ModeNames == { null, Camera, << "point" >>, << "line" >>, << "circle" >> }

MouseDown == \E entity \in PickedEntities, calls \in HandlerCalls :
                mouseDownHandler(entity, calls)
MouseMove == \E entity \in PickedEntities, calls \in HandlerCalls :
                mouseMoveHandler(entity, calls)
MouseUp == \E near \in BOOLEAN, distThrows \in BOOLEAN, calls \in HandlerCalls :
                mouseUpHandler(near, distThrows, calls)
Dispatched == \E ev \in DispatchedEvents, entity \in PickedEntities,
                 hasHandler \in BOOLEAN, calls \in HandlerCalls :
                eventDispatcher(ev[1], ev[2], entity, hasHandler, calls)
ContextMenu == \E entity \in PickedEntities, calls \in HandlerCalls :
                contextMenuHandler(entity, calls)
SetActiveMode == \E newMode \in ModeNames : activeMode(newMode)

NextModes ==
    \/ MouseDown \/ MouseMove \/ MouseUp \/ Dispatched \/ ContextMenu
    \/ SetActiveMode \/ addActionListener \/ lockMode \/ unlockMode

SpecModes == Init /\ [][NextModes]_vars

\* ------------------------------------------------------------- properties
\* The jobs between their lock and their unlock for a tree path: a push from
\* _lockNode to _releaseNode, a recolor from the grant of its lock to its release.
Coloring(tp) ==
    { <<"push", k>> : k \in { j \in LoadIds :
            load[j].pc = "coloring" /\ load[j].treePath = tp } }
    \cup { <<"recolor", d>> : d \in { e \in DriverIds :
            driver[e].pc \in { "locked", "coloring" }
            /\ nodeObjs[driver[e].node].treePath = tp } }

Waiting(tp) ==
    { d \in DriverIds : driver[d].pc = "waiting" /\ nodeObjs[driver[d].node].treePath = tp }

LiveDrivers == { d \in DriverIds : driver[d].pc # "idle" }

\* C1: for every tree path at most one coloring or recoloring job is between
\* its lock and its unlock.
C1_OneJobPerPath == \A tp \in PathSet : Cardinality(Coloring(tp)) <= 1

\* C2: a step of remove(path) of a cached path leaves no entry for path in the
\* tile map and no task for path in the recolor queue.
C2_RemoveScrubsQueue ==
    [][\A tp \in PathSet :
            (removes' # removes /\ tp \in DOMAIN nodes /\ tp \notin DOMAIN nodes')
                => \A i \in DOMAIN recolorTasks' :
                        nodeObjs'[recolorTasks'[i].node].treePath # tp]_vars

\* C3: at most one activation of _startRecolor is live, so at most one
\* _recolorNode is in progress.
C3_OneDriver == Cardinality(LiveDrivers) <= 1

\* C4: after the worker job of a push or recolor of a path failed, the lock of
\* the path is released: with no job of the path between lock and unlock and no
\* recolor waiting for it, the lock table has no entry for the path.
C4_LockReleasedAfterFailure ==
    \A tp \in PathSet :
        ( /\ \E w \in history.workerFailed : w[2] = tp
          /\ Coloring(tp) = {}
          /\ Waiting(tp) = {} )
            => tp \notin DOMAIN lockedNodes

\* C5: after a recolor job failed the scheduler goes on: tasks in the recolor
\* queue have a live driver that will shift them.
C5_FailureKeepsDraining ==
    ( /\ \E w \in history.workerFailed : w[1] = "recolor"
      /\ recolorTasks # << >> )
        => LiveDrivers # {}

\* C6: a push whose worker job failed still inserted its tile (the one holding
\* the zero-filled output buffer) into the tile map.
C6_FailedPushInserts ==
    \A k \in LoadIds :
        (load[k].pc = "failed" /\ flushes = 0 /\ removes = 0)
            => load[k].treePath \in DOMAIN nodes

\* C7: with remove (and no flush), a recolor job that completes marks its node
\* updated and calls the render request function only if the node's tree path is
\* still in the tile map.
C7_WriteBackOnlyIfPresent ==
    [][\A d \in DriverIds :
            (flushes = 0 /\ driver[d].pc = "unprepared" /\ renderRequests' # renderRequests
                /\ driver'[d] # driver[d])
                => nodeObjs[driver[d].node].treePath \in DOMAIN nodes]_vars

\* C8: right after flush() the tile map, the recolor queue and
\* pointCloudBufferStats are empty.
C8_FlushEmptiesAll ==
    [][flushes' # flushes =>
            /\ nodes' = << >>
            /\ recolorTasks' = << >>
            /\ pointCloudBufferStats' = NoStats]_vars

\* C9: a push or recolor that was in flight when flush() was called completes
\* without adding a tile to the tile map and without a render request.
C9_FlushDiscardsInFlight ==
    [][/\ \A k \in LoadIds :
            (load[k].flushed /\ load[k].pc = "unprepared" /\ load'[k].pc = "done")
                => nodes' = nodes
       /\ \A d \in DriverIds :
            (driver[d].flushed /\ driver[d].pc = "unprepared" /\ driver'[d] # driver[d])
                => renderRequests' = renderRequests]_vars

\* The sum of one bucket over the tiles in the tile map.
CachedCount(f, b) ==
    SumOver(DOMAIN nodes, [tp \in DOMAIN nodes |-> nodeObjs[nodes[tp]].bufferStats[f][b]])

NoLoadInFlight == \A k \in LoadIds : ~InFlight(load[k].pc)

\* Every load that merged its stats has its tile in the tile map now.
AllMergedCached ==
    \A k \in 1..(nextLoad - 1) : \E tp \in DOMAIN nodes : nodes[tp] = k

C11_StatsMonotone ==
    [][/\ \A f \in Fields, b \in Buckets :
            pointCloudBufferStats'[f][b] >= pointCloudBufferStats[f][b]
       /\ nextLoad' # nextLoad =>
            \A f \in Fields, b \in Buckets :
                pointCloudBufferStats'[f][b] =
                    pointCloudBufferStats[f][b] + load'[nextLoad].bufferStats[f][b]
       /\ nextLoad' = nextLoad => pointCloudBufferStats' = pointCloudBufferStats]_vars

\* Two loads merged and then one of the two tiles removed: the statistics still
\* count both.
C11_Witness ==
    /\ removes = 1
    /\ Cardinality(DOMAIN nodes) = 1
    /\ pointCloudBufferStats["z"][0] = 2

\* The step in which push of load k caches its node and queues the impacted ones.
PushCompletes(k) == load[k].pc = "unprepared" /\ load'[k].pc = "done"

\* After the step: a recolor of the tile path with the brush slot is in the
\* recolor queue, or the driver has just taken it.
RecolorEnqueued(tp, index) ==
    \/ \E j \in DOMAIN recolorTasks' :
            /\ nodeObjs'[recolorTasks'[j].node].treePath = tp
            /\ index \in DOMAIN recolorTasks'[j].brushes
    \/ \E d \in DriverIds :
            /\ driver'[d] # driver[d]
            /\ driver'[d].pc = "delay"
            /\ nodeObjs'[driver'[d].node].treePath = tp
            /\ index \in DOMAIN driver'[d].brushes

\* The tile has no staging attributes for the slot, or others than params.
StagingStale(tp, index, params) ==
    \/ index \notin DOMAIN nodeObjs[nodes[tp]].stagingAttributes
    \/ nodeObjs[nodes[tp]].stagingAttributes[index] # params

Quiescent ==
    /\ NoLoadInFlight
    /\ recolorTasks = << >>
    /\ LiveDrivers = {}
    /\ ~recolorRunning
    /\ history.workerFailed = {}
    /\ flushes = 0 /\ removes = 0

\* C13: whenever the system is quiescent every cached tile's staging attributes
\* (slot 0, the z ramp) are the range derived from the current
\* pointCloudBufferStats.
C13_QuiescentStagingCurrent ==
    Quiescent =>
        \A tp \in DOMAIN nodes :
            nodeObjs[nodes[tp]].stagingAttributes[0]
                = statsToFieldRange("ramp_z", pointCloudBufferStats)

\* The tree path of a queued task's node.
QueuedPath(j) == nodeObjs[recolorTasks[j].node].treePath

\* C14: the recolor queue holds each tile path at most once.
C14_QueuePathsUnique ==
    \A i, j \in DOMAIN recolorTasks : i # j => QueuedPath(i) # QueuedPath(j)

\* Two tiles queued for recolor while the driver works on a third.
C14_Witness == Len(recolorTasks) >= 2 /\ LiveDrivers # {}

\* The step in which _startRecolor gets its _recolorNode back for driver d.
RecolorCompletes(d) == driver[d].pc = "unprepared" /\ driver'[d].pc # "unprepared"

\* C15: each recolor job the driver completes sets the node's update flag and
\* calls the render request function exactly once; push caches its buffer with
\* update = false and does not call it; nothing else calls it.
C15_RenderOncePerRecolor ==
    [][/\ \A d \in DriverIds : RecolorCompletes(d) =>
            /\ renderRequests' = renderRequests + 1
            /\ driver[d].node \in DOMAIN nodeObjs' => nodeObjs'[driver[d].node].update
       /\ \A k \in LoadIds : PushCompletes(k) =>
            /\ renderRequests' = renderRequests
            /\ ~nodeObjs'[k].update
       /\ (\A d \in DriverIds : ~RecolorCompletes(d)) => renderRequests' = renderRequests]_vars

\* A cached tile recolored once: its update flag is set, one render request made.
C15_Witness ==
    /\ renderRequests = 1
    /\ \E tp \in DOMAIN nodes : nodeObjs[nodes[tp]].update

C17_StagingKeys ==
    \A tp \in DOMAIN nodes :
        LET t == nodeObjs[nodes[tp]] IN
            DOMAIN t.stagingAttributes = 0..(t.dataPointSize - 4)

\* a is a proper prefix of b.
ProperPrefix(a, b) == Len(a) < Len(b) /\ SubSeq(b, 1, Len(a)) = a

\* The tree paths of a sequence of nodes.
PathsOf(set) == [j \in 1..Len(set) |-> nodeObjs[set[j]].treePath]

\* C18: the candidates of a brush with strategy ALL, for a push of any path,
\* are exactly the cached paths other than the pushed one, in lexicographic
\* order, every cached ancestor before its descendants.
C18_AllInDepthFirstOrder ==
    \A tp \in WidePathSet :
        LET paths == PathsOf(nodeSet(nodes, tp, "ALL")) IN
            /\ { paths[j] : j \in DOMAIN paths } = DOMAIN nodes \ {tp}
            /\ Len(paths) = Cardinality(DOMAIN nodes \ {tp})
            /\ \A i, j \in DOMAIN paths : i < j =>
                    /\ StringLess(paths[i], paths[j])
                    /\ ~ProperPrefix(paths[j], paths[i])

\* The whole tree cached: three candidates for every push.
C18_Witness == DOMAIN nodes = WidePathSet

\* C19: the candidates of a brush with strategy ANCESTORS, for a push of any
\* path, are exactly the cached tiles whose path is a proper prefix of the
\* pushed one, the nearest ancestor first; uncached ancestors are skipped.
C19_AncestorsNearestFirst ==
    \A tp \in WidePathSet :
        LET paths == PathsOf(nodeSet(nodes, tp, "ANCESTORS")) IN
            /\ { paths[j] : j \in DOMAIN paths }
                    = { q \in DOMAIN nodes : ProperPrefix(q, tp) }
            /\ \A i, j \in DOMAIN paths : i < j => Len(paths[i]) > Len(paths[j])

\* A push of "R01" about to cache its tile, with "R0", "R" and "R01" cached.
C19_Witness ==
    /\ \E k \in LoadIds : load[k].pc = "unprepared" /\ load[k].treePath = <<"R", "0", "1">>
    /\ { <<"R">>, <<"R", "0">>, <<"R", "0", "1">> } \subseteq DOMAIN nodes

\* C20: a push whose brushes all declare NONE leaves the recolor queue, the
\* driver and every other cached tile as they were.
C20_NoneImpactsNothing ==
    [][\A k \in LoadIds :
            ( /\ PushCompletes(k)
              /\ \A i \in 1..Len(load[k].brushes) :
                    nodeSelectionStrategy(load[k].brushes[i],
                                          load[k].pointCloudBufferStats).strategy = "NONE" )
                => /\ recolorTasks' = recolorTasks
                   /\ driver' = driver
                   /\ \A tp \in DOMAIN nodes \ {load[k].treePath} :
                        /\ tp \in DOMAIN nodes'
                        /\ nodes'[tp] = nodes[tp]
                        /\ nodeObjs'[nodes[tp]] = nodeObjs[nodes[tp]]]_vars

\* A tile pushed with a brush that declared NONE (it staged {}), cached after
\* another tile that is still cached.
C20_Witness ==
    \E tp, other \in DOMAIN nodes :
        /\ nodes[tp] > nodes[other]
        /\ nodeObjs[nodes[tp]].stagingAttributes = (0 :> << >>)

\* ------------------------------------------------------------ C21 .. C30
\* The source of a channel names a brush the registry does not hold.
UnknownSource(source) ==
    /\ source # null
    /\ BrushKey(source.scheme, source.name) \notin DOMAIN availableBrushes

\* C21: an unknown brush URI given to the loader makes that color channel a
\* null slot: neither constructing the loader nor setting the channel fails.
C21_UnknownBrushIsNullSlot ==
    /\ ( /\ result.op = "setColorChannelBrush"
         /\ result.args[1] < ChannelCount
         /\ UnknownSource(result.args[2]) )
       => ( /\ ~result.out.threw
            /\ loaderBrushes[result.args[1]] = null )
    /\ ( /\ result.op = "constructor"
         /\ \E i \in DOMAIN result.args[1] : UnknownSource(result.args[1][i]) )
       => ( /\ ~result.out.threw
            /\ \A i \in DOMAIN result.args[1] :
                  UnknownSource(result.args[1][i]) => loaderBrushes[i - 1] = null )

\* What the registrations so far leave registered under a key.
RegistryFollowsRegistrations ==
    /\ DOMAIN availableBrushes \subseteq BrushKeys
    /\ \A key \in BrushKeys :
          key \in DOMAIN availableBrushes <=> history.registered[key] # << >>
    /\ result.op = "createBrush"
       => LET key == BrushKey(result.args[1].scheme, result.args[1].name)
          IN  /\ result.out.threw <=> history.registered[key] = << >>
              /\ ~result.out.threw
                 => /\ result.out.value.klass = history.registered[key][1]
                    /\ result.out.value.brushSpec = result.args[1]
    /\ result.op = "availableBrushes"
       => result.out.value = { key \in BrushKeys : history.registered[key] # << >> }

SameBrushes(bs, out) ==
    /\ ~out.threw
    /\ DOMAIN out.value = DOMAIN bs
    /\ \A i \in DOMAIN bs :
          IF bs[i] = null THEN out.value[i] = null
          ELSE /\ out.value[i] # null
               /\ out.value[i].brushSpec = bs[i].brushSpec

\* Every brush of bs is of a key the registry holds.
AllRegistered(bs) ==
    \A i \in DOMAIN bs :
        bs[i] # null
        => BrushKey(bs[i].brushSpec.scheme, bs[i].brushSpec.name)
              \in DOMAIN availableBrushes

C23_TransferKeepsSlots ==
    [][ \A d \in DriverIds :
          ( driver[d].pc = "locked" /\ driver'[d].pc = "coloring" )
          => \A i \in DOMAIN driver[d].brushes :
                /\ i + 1 \in DOMAIN driver'[d].sent
                /\ driver'[d].sent[i + 1] = beginTransfer(BrushAt(driver[d].brushes[i])) ]_vars

\* C25: endTransfer with the parameters of beginTransfer gives the receiving
\* brush the sender's noColor, min, max, scalef and readField.
C25_TransferRoundTrip ==
    result.op = "endTransfer"
    => /\ result.out.noColor = result.brush.noColor
       /\ result.out.range = result.brush.range
       /\ result.out.scalef = result.brush.scalef
       /\ result.out.readField = result.brush.readField

C25_Witness ==
    /\ result.op = "endTransfer"
    /\ result.brush.noColor
    /\ result.brush.readField = "intensity"
    /\ result.out.kind = "ramp_z"

\* The histogram of the brush's field in the stats of the prepare holds points.
HasHistogram == \E b \in RampBuckets : result.stats[BrushField(result.brush.kind)][b] > 0

\* Smallest and largest bucket key of that histogram.
SmallestKey ==
    CHOOSE s \in RampBuckets :
        /\ result.stats[BrushField(result.brush.kind)][s] > 0
        /\ \A b \in RampBuckets :
              result.stats[BrushField(result.brush.kind)][b] > 0 => s <= b
LargestKey ==
    CHOOSE k \in RampBuckets :
        /\ result.stats[BrushField(result.brush.kind)][k] > 0
        /\ \A b \in RampBuckets :
              result.stats[BrushField(result.brush.kind)][b] > 0 => b <= k

\* The value colorPoint reads from the point: y for the field z.
ReadValue ==
    IF result.brush.kind = "ramp_z" THEN result.out[1].y ELSE result.out[1].intensity

C27_NoColorMode ==
    /\ ( "brush" \in DOMAIN result /\ ~HasHistogram ) => result.brush.noColor
    /\ ( result.op = "colorPoint" /\ ~HasHistogram ) => result.out[2] = << 0, 0, 0 >>
    /\ ( result.op = "stagingAttributes" /\ ~HasHistogram ) => result.out = << >>
    /\ result.op = "nodeSelectionStrategy"
       => ( result.out.strategy = "NONE" <=> result.brush.noColor )

C27_Witness ==
    /\ result.op = "nodeSelectionStrategy"
    /\ result.out.strategy = "NONE"
    /\ result.brush.kind = "ramp_intensity"
    /\ \E b \in RampBuckets : result.stats["z"][b] > 0

\* The entries of the queue after a step that hold a brush of load k: the
\* entries the push of k enqueued or coalesced into.
EnqueuedBy(k) ==
    { j \in DOMAIN recolorTasks' :
        \E i \in DOMAIN recolorTasks'[j].brushes : recolorTasks'[j].brushes[i][1] = k }

\* The paths of those entries.
EnqueuedPaths(k) ==
    { nodeObjs'[recolorTasks'[j].node].treePath : j \in EnqueuedBy(k) }

\* The entries of the queue before the step whose path the push of k did not
\* impact, in queue order.
NotImpacted(k) ==
    LET Other(task) == nodeObjs[task.node].treePath \notin EnqueuedPaths(k)
    IN  SelectSeq(recolorTasks, Other)

\* What the queue looks like after the push of k enqueued its impacts beside a
\* running driver: the entries it touched are at the tail, the others are as
\* they were, and a touched entry keeps its node and its other slots.
EnqueuedAtTail(k) ==
    /\ \A a \in DOMAIN recolorTasks' \ EnqueuedBy(k), b \in EnqueuedBy(k) : a < b
    /\ SubSeq(recolorTasks', 1, Len(recolorTasks') - Cardinality(EnqueuedBy(k)))
          = NotImpacted(k)
    /\ \A b \in EnqueuedBy(k) :
          LET new == recolorTasks'[b]
              prev == { j \in DOMAIN recolorTasks :
                          QueuedPath(j) = nodeObjs'[new.node].treePath }
          IN  IF prev = {}
              THEN \A i \in DOMAIN new.brushes : new.brushes[i][1] = k
              ELSE \A j \in prev :
                    /\ new.node = recolorTasks[j].node
                    /\ DOMAIN recolorTasks[j].brushes \subseteq DOMAIN new.brushes
                    /\ \A i \in DOMAIN new.brushes :
                          \/ new.brushes[i][1] = k
                          \/ /\ i \in DOMAIN recolorTasks[j].brushes
                             /\ new.brushes[i] = recolorTasks[j].brushes[i]

\* One more impact on the tile of any entry of the queue, in either slot: the
\* entry goes to the tail with that slot set and its other slots kept.
CoalescesOne ==
    \A j \in DOMAIN recolorTasks, i \in 0..1, k \in LoadIds :
        LET b == << k, i + 1 >>
            old == recolorTasks[j]
            q == queueOne(recolorTasks, nodeObjs,
                          [node |-> old.node, index |-> i, brush |-> b],
                          pointCloudBufferStats)
        IN  /\ Len(q) = Len(recolorTasks)
            /\ SubSeq(q, 1, Len(q) - 1) = RemoveAt(recolorTasks, j)
            /\ q[Len(q)].node = old.node
            /\ q[Len(q)].pointCloudBufferStats = old.pointCloudBufferStats
            /\ DOMAIN q[Len(q)].brushes = DOMAIN old.brushes \cup { i }
            /\ \A x \in DOMAIN q[Len(q)].brushes :
                  q[Len(q)].brushes[x] = IF x = i THEN b ELSE old.brushes[x]

\* C28: when a push enqueues the impact (t, i, b) and the queue holds an entry
\* for the path of t, slot i of the entry becomes b, its other slots are kept
\* and the entry moves to the tail, the other entries keeping their order;
\* without such an entry a new one holding only the impacted slots is appended.
C28_CoalesceMovesToTail ==
    [][ /\ \A k \in LoadIds : ( PushCompletes(k) /\ recolorRunning ) => EnqueuedAtTail(k)
        /\ CoalescesOne ]_vars

\* Two entries hold the brush of one push but the stats of two: the entry
\* with the older stats was in the queue already and was coalesced, behind
\* an entry that was not.
C28_Witness ==
    \E a, b \in DOMAIN recolorTasks :
        /\ a < b
        /\ recolorTasks[a].brushes = recolorTasks[b].brushes
        /\ recolorTasks[a].pointCloudBufferStats # recolorTasks[b].pointCloudBufferStats


\* The driver d goes on to its next task.
TakesNext(d) == driver[d].pc = "unprepared" /\ driver'[d].pc = "delay"

\* C29: the driver processes the entries in queue order after coalescing, the
\* head first, and a tile impacted several times while its entry is queued has
\* one entry, recolored once, at the position of its latest enqueue.
C29_HeadFirstOncePerTile ==
    [][ /\ \A d \in DriverIds :
              TakesNext(d)
              => /\ recolorTasks # << >>
                 /\ driver'[d].node = Head(recolorTasks).node
                 /\ driver'[d].brushes = Head(recolorTasks).brushes
                 /\ driver'[d].pointCloudBufferStats = Head(recolorTasks).pointCloudBufferStats
                 /\ recolorTasks' = Tail(recolorTasks)
        /\ \A a, b \in DOMAIN recolorTasks' :
              nodeObjs'[recolorTasks'[a].node].treePath
                    = nodeObjs'[recolorTasks'[b].node].treePath
              => a = b
        /\ \A k \in LoadIds :
              ( PushCompletes(k) /\ recolorRunning )
              => \A a, b \in DOMAIN recolorTasks' :
                    ( /\ \E x \in DOMAIN recolorTasks : recolorTasks[x] = recolorTasks'[a]
                      /\ \A x \in DOMAIN recolorTasks : recolorTasks[x] # recolorTasks'[b] )
                    => a < b ]_vars

\* The driver has just taken the head of a queue of several entries, the one
\* now at the tail coalesced from two pushes.
C29_Witness ==
    /\ \E d \in DriverIds : driver[d].pc = "delay"
    /\ Len(recolorTasks) >= 2
    /\ \E a \in DOMAIN recolorTasks :
          /\ a < Len(recolorTasks)
          /\ recolorTasks[a].brushes = recolorTasks[Len(recolorTasks)].brushes
          /\ recolorTasks[a].pointCloudBufferStats
                # recolorTasks[Len(recolorTasks)].pointCloudBufferStats


\* C30: with worker jobs that complete and pushes that stop, every entry of the
\* recolor queue is processed in the end: the queue becomes empty and the
\* driver clears the recolorRunning flag.
C30_QueueDrains == <>[](recolorTasks = << >> /\ ~recolorRunning)


\* ------------------------------------------------------------ C31 .. C40
\* The driver d calls _lockNode for its tile, and the path it locks.
Locks(d) == driver[d].pc = "prepared" /\ driver'[d].pc # "prepared"
LockedPath(d) == nodeObjs[driver[d].node].treePath

\* A push or a recolor calls _releaseNode for the path key.
Unlocks(key) ==
    \/ \E k \in LoadIds :
          /\ load[k].pc = "coloring" /\ load'[k].pc = "unprepared"
          /\ load[k].treePath = key
    \/ \E d \in DriverIds :
          /\ driver[d].pc = "coloring" /\ driver'[d].pc = "released"
          /\ LockedPath(d) = key

\* C31: lock(path) is granted at once when the path has no entry, otherwise the
\* caller waits at the end of the entry's queue; unlock(path) grants the lock
\* to the longest-waiting caller, or removes the entry when nobody waits, so
\* that the next lock(path) is granted at once.
C31_LockTable ==
    [][ /\ \A d \in DriverIds :
              Locks(d)
              => IF LockedPath(d) \notin DOMAIN lockedNodes
                 THEN /\ driver'[d].pc = "locked"
                      /\ LockedPath(d) \in DOMAIN lockedNodes'
                      /\ lockedNodes'[LockedPath(d)].waiting = << >>
                 ELSE /\ driver'[d].pc = "waiting"
                      /\ lockedNodes'[LockedPath(d)].waiting
                            = Append(lockedNodes[LockedPath(d)].waiting, << "recolor", d >>)
        /\ \A key \in DOMAIN lockedNodes :
              Unlocks(key)
              => IF lockedNodes[key].waiting = << >>
                 THEN key \notin DOMAIN lockedNodes'
                 ELSE /\ lockedNodes'[key].waiting = Tail(lockedNodes[key].waiting)
                      /\ \A d \in DriverIds :
                            driver[d].pc = "waiting"
                            => ( driver'[d].pc = "locked"
                                 <=> Head(lockedNodes[key].waiting) = << "recolor", d >> ) ]_vars

\* A driver waits for its tile's lock behind another waiter.
C31_Witness ==
    \E d \in DriverIds :
        /\ driver[d].pc = "waiting"
        /\ Len(lockedNodes[nodeObjs[driver[d].node].treePath].waiting) >= 2
        /\ Head(lockedNodes[nodeObjs[driver[d].node].treePath].waiting) # << "recolor", d >>


\* The load k passes the stats merge and enters push.
Merges(k) == load[k].pc = "idle" /\ load'[k].pc = "prepared"

\* C32: the incoming tile's bufferStats are merged into pointCloudBufferStats
\* before the brushes of its push are prepared: the stats they prepare with
\* hold the incoming tile's buckets, whatever other loads are in flight.
C32_MergedBeforePrepare ==
    [][ \A k \in LoadIds :
          Merges(k)
          => /\ load'[k].pointCloudBufferStats = pointCloudBufferStats'
             /\ \A f \in Fields, b \in Buckets :
                   pointCloudBufferStats'[f][b]
                      = pointCloudBufferStats[f][b] + load'[k].bufferStats[f][b]
             /\ \A i \in DOMAIN brush'[k] :
                   LET keys == { b \in Buckets :
                                   load'[k].bufferStats[BrushField(brush'[k][i].kind)][b] > 0 }
                   IN  keys # {}
                       => /\ ~brush'[k][i].noColor
                          /\ \A b \in keys :
                                /\ brush'[k][i].range[1] <= b
                                /\ b + BucketWidth <= brush'[k][i].range[2] ]_vars

\* Two loads are in push at once, the later one prepared with both tiles' stats.
C32_Witness ==
    \E j, k \in LoadIds :
        /\ j # k
        /\ load[j].pc = "prepared" /\ load[k].pc = "prepared"
        /\ load[j].bufferStats["z"][10] = 0
        /\ load[k].bufferStats["z"][10] = 1
        /\ load[k].pointCloudBufferStats["z"][0] = 2
        /\ brush[k][1].range = << 0, 20 >>


\* The keys of the histogram of the brush's field in the pushing tile's stats.
PushedKeys ==
    { b \in RampBuckets : result.out[1][BrushField(result.brush.kind)][b] > 0 }

\* C33: a cached tile needs recolor exactly when its staged (min, max) differs
\* from the range [s, e] of the pushing tile's stats; a tile staged in no-color
\* mode always needs it, and a tile colored with stats S does not need it
\* against S.
C33_NeedsRecolorIffRangeDiffers ==
    result.op = "bufferNeedsRecolor"
    => LET s == CHOOSE x \in PushedKeys : \A b \in PushedKeys : x <= b
           e == (CHOOSE x \in PushedKeys : \A b \in PushedKeys : b <= x) + 10
           staged == IF result.brush.noColor THEN << >> ELSE result.brush.range
       IN  /\ result.out[2] <=> staged # << s, e >>
           /\ result.brush.noColor => result.out[2]
           /\ result.out[1] = result.stats => ~result.out[2]

\* A tile staged with one range is tested against a wider one and against its
\* own: here against a range with the same min and a larger max.
C33_Witness ==
    /\ result.op = "bufferNeedsRecolor"
    /\ ~result.brush.noColor
    /\ result.brush.range = << 0, 20 >>
    /\ PushedKeys = { 0, 20 }
    /\ result.out[2]


\* C34: no lost wake-up: whenever the control thread yields with a non-empty
\* recolor queue, the recolorRunning flag is true, after any sequence of push,
\* remove and flush: a driver has been started for the entries.
C34_QueuedMeansRunning == recolorTasks # << >> => recolorRunning

\* An entry is queued behind a running driver after a remove and a flush.
C34_Witness ==
    /\ recolorTasks # << >>
    /\ recolorRunning
    /\ flushes > 0
    /\ removes > 0


\* The pushes and recolors between their _lockNode and their _releaseNode for
\* the path key.
LockHolders(key) ==
    { << "push", k >> : k \in { j \in LoadIds :
            load[j].pc = "coloring" /\ load[j].treePath = key } }
        \cup { << "recolor", d >> : d \in { e \in DriverIds :
            /\ driver[e].pc \in { "waiting", "locked", "coloring" }
            /\ nodeObjs[driver[e].node].treePath = key } }

\* C35: when no worker job has failed, a path that no push and no recolor is
\* between its lock and its unlock for has no entry in the lock table.
C35_NoLockLeak ==
    history.workerFailed = {}
    => \A key \in DOMAIN lockedNodes : LockHolders(key) # {}


\* The node object o is the one the cache holds under its tree path.
IsCachedNode(o) ==
    /\ nodeObjs[o].treePath \in DOMAIN nodes
    /\ nodes[nodeObjs[o].treePath] = o

\* C36: every entry of the recolor queue and the job of the running driver
\* refer to the node object the cache holds under the entry's tree path, so
\* that after a re-push of a path the result of a queued or running recolor
\* lands on the node now cached.
C36_TasksReferToCachedNode ==
    /\ \A j \in DOMAIN recolorTasks : IsCachedNode(recolorTasks[j].node)
    /\ \A d \in LiveDrivers : IsCachedNode(driver[d].node)


\* The driver d takes a step of _recolorNode, and the step that writes the
\* staging attributes.
Recolors(d) ==
    \/ driver[d].pc = "delay" /\ driver'[d].pc = "prepared"
    \/ driver[d].pc = "prepared" /\ driver'[d].pc \in { "locked", "waiting" }
    \/ driver[d].pc = "locked" /\ driver'[d].pc = "coloring"
    \/ driver[d].pc = "coloring" /\ driver'[d].pc \in { "released", "idle" }
    \/ driver[d].pc = "released" /\ driver'[d].pc = "unprepared"
Stages(d) == driver[d].pc = "released" /\ driver'[d].pc = "unprepared"

\* The fields of a node a recolor leaves alone.
SameTile(a, b) ==
    /\ a.treePath = b.treePath
    /\ a.totalPoints = b.totalPoints
    /\ a.dataPointSize = b.dataPointSize
    /\ a.bufferStats = b.bufferStats

\* C37: a recolor job for a node with brushes at the indexes I changes that
\* node only: it writes the node's staging attributes at the indexes of I and
\* leaves the node's staging attributes at every other index, its totalPoints,
\* point size and stats, the tile map and every other node unchanged.
C37_RecolorFrame ==
    [][ \A d \in DriverIds :
          Recolors(d)
          => /\ nodes' = nodes
             /\ \A o \in DOMAIN nodeObjs \cap DOMAIN nodeObjs' :
                  IF o # driver[d].node THEN nodeObjs'[o] = nodeObjs[o]
                  ELSE /\ SameTile(nodeObjs'[o], nodeObjs[o])
                       /\ \A x \in DOMAIN nodeObjs[o].stagingAttributes \ DOMAIN driver[d].brushes :
                            /\ x \in DOMAIN nodeObjs'[o].stagingAttributes
                            /\ nodeObjs'[o].stagingAttributes[x] = nodeObjs[o].stagingAttributes[x]
                       /\ Stages(d)
                          => \A x \in DOMAIN driver[d].brushes :
                                /\ x \in DOMAIN nodeObjs'[o].stagingAttributes
                                /\ nodeObjs'[o].stagingAttributes[x]
                                      = stagingAttributes(BrushAt(driver[d].brushes[x])) ]_vars

\* A job with fewer brushes than its node has slots has written its staging
\* attributes, with another node cached.
C37_Witness ==
    \E d \in DriverIds :
        /\ driver[d].pc = "unprepared"
        /\ DOMAIN nodeObjs[driver[d].node].stagingAttributes \ DOMAIN driver[d].brushes # {}
        /\ Cardinality(DOMAIN nodes) >= 2


\* The load l completes.
Completes(l) ==
    /\ l \in DOMAIN bufferLoads
    /\ bufferLoads[l].pc = "loading"
    /\ bufferLoads'[l].pc = "done"

\* C38: when a point buffer was removed from the scene while its load was in
\* flight, the completion of the load creates no entry for its id in the
\* point-buffers map, and a later re-add of the id starts a fresh load.
C38_RemovedBufferStaysRemoved ==
    [][ /\ \A l \in 1..MaxBufferLoads :
              Completes(l) /\ bufferLoads[l].id \notin scene
              => bufferLoads[l].id \notin DOMAIN pointBuffers'
        /\ \A id \in BufferIds :
              id \notin scene /\ id \in scene'
              => \E l \in DOMAIN bufferLoads' \ DOMAIN bufferLoads :
                    bufferLoads'[l].id = id ]_vars


\* The handler name each mouse event is delivered under.
HandlerName(event) ==
    CASE event = "mousedown" -> "mouse-down"
      [] event = "mousemove" -> "mouse-move"
      [] event = "mouseup" -> "mouse-up"
      [] event = "click" -> "click"
      [] event = "dblclick" -> "double-click"
      [] event = "mousewheel" -> "mouse-wheel"

C40_MouseUpEndsDragging ==
    handled.event = "mouseup" => ~dragging /\ active = null

====
